---- MODULE Spec2Model ----
(***************************************************************************)
(* vibetracker: transcript adapters, event mapper and the idempotent       *)
(* SQLite event store.                                                     *)
(*                                                                         *)
(* SpecStore  : independent CLI invocations calling insertEvents against   *)
(*              one database file (db.ts).                                 *)
(* SpecIngest : one transcript file that an agent appends to, ingested by  *)
(*              successive CLI runs: parse -> mapToVibeEvents ->           *)
(*              insertEvents (cli.ts, ingest/*.ts).                        *)
(* SpecTurns  : one parse of a longer Claude or Codex transcript.          *)
(* SpecFlush  : one parse of a Claude, Codex or Cursor transcript whose    *)
(*              entries report token usage.                                *)
(* SpecGemini : one parse of a Gemini session document.                    *)
(* SpecNormalize : one call of normalizeToolName (normalize.ts).           *)
(* SpecMap    : one call of mapToVibeEvents (mapper.ts).                   *)
(* SpecFileInfo : one call of extractFileInfo (claude.ts).                 *)
(* SpecPayload : one call of a hook-payload parser.                        *)
(* SpecUuid   : calls of generateUUIDv7, one after the other (mapper.ts).  *)
(***************************************************************************)
EXTENDS Integers, Sequences, FiniteSets, TLC

\* ------------------------------------------------------------------------
\* Values
\* ------------------------------------------------------------------------
\* SQL NULL / JavaScript undefined in a text position.
NULL == "NULL"
\* SQL NULL / JavaScript undefined in a number position.
NoNum == -1

\* ------------------------------------------------------------------------
\* Bounds
\* ------------------------------------------------------------------------
\* Longest batch a CLI invocation of SpecStore submits.
MaxBatch == 2
\* How many times an invocation of SpecStore is repeated with the same batch.
MaxResub == 1
\* Longest transcript of SpecIngest, in lines.
MaxEntries == 3
\* How many times SpecIngest runs the pipeline over the transcript.
MaxRuns == 2
\* Longest transcript of SpecTurns, in lines.
MaxTurnLines == 5
MaxMessages == 3
MaxFlushLines == 5
\* The events of a batch handed to mapToVibeEvents in SpecMap.
MaxMapped == 3
\* The lines of a text handed to extractFileInfo in SpecFileInfo.
MaxTextLines == 3
\* The tokens of the text on standard input in SpecPayload.
MaxTokens == 3
\* The ids generated one after the other in SpecUuid.
MaxIds == 2

\* ------------------------------------------------------------------------
\* Canonical event model (ingest/types.ts, schema.ts)
\* ------------------------------------------------------------------------
NumFields ==
  {"timestamp", "turn_index", "prompt_tokens", "completion_tokens", "total_tokens",
   "file_lines_added", "file_lines_removed"}

ParsedFields ==
  {"timestamp", "session_id", "event_type", "cwd", "git_branch", "git_repo",
   "turn_index", "model", "prompt_tokens", "completion_tokens", "total_tokens",
   "tool_name", "tool_name_raw", "tool_input",
   "file_path", "file_action", "file_lines_added", "file_lines_removed",
   "prompt_text", "agent_id", "agent_type"}

\* A property the caller did not pass is undefined.
Undef(f) == IF f \in NumFields THEN NoNum ELSE NULL

\* createParsedEvent of claude.ts, codex.ts and gemini.ts: copies the
\* properties it was given, every other property is undefined.
createParsedEvent(params) ==
  [f \in ParsedFields |-> IF f \in DOMAIN params THEN params[f] ELSE Undef(f)]

\* ------------------------------------------------------------------------
\* Event mapper (ingest/mapper.ts)
\* ------------------------------------------------------------------------
\* The configuration struct handed to the mapper.
Config == [user_id |-> "alice", team_id |-> NULL, machine_id |-> "m1"]

\* a ?? b
Nullish(a, b) == IF a = NULL THEN b ELSE a

\* mapEventToVibeEvent: one storable record from one parsed event.  The id is
\* passed in; generateUUIDv7 builds it from the millisecond clock and 74
\* random bits, which the callers below model by handing out ids that
\* were never handed out before.
mapEventToVibeEvent(event, source, config, cachedGitRepo, id) ==
  [ id                 |-> id,
    timestamp          |-> event.timestamp,
    user_id            |-> config.user_id,
    team_id            |-> config.team_id,
    machine_id         |-> config.machine_id,
    session_id         |-> event.session_id,
    event_type         |-> event.event_type,
    source             |-> source,
    session_cwd        |-> event.cwd,
    session_git_repo   |-> Nullish(event.git_repo, cachedGitRepo),
    session_git_branch |-> event.git_branch,
    turn_index         |-> event.turn_index,
    model              |-> event.model,
    prompt_tokens      |-> event.prompt_tokens,
    completion_tokens  |-> event.completion_tokens,
    total_tokens       |-> event.total_tokens,
    tool_name          |-> event.tool_name,
    tool_name_raw      |-> event.tool_name_raw,
    tool_input         |-> event.tool_input,
    file_path          |-> event.file_path,
    file_action        |-> event.file_action,
    file_lines_added   |-> event.file_lines_added,
    file_lines_removed |-> event.file_lines_removed,
    prompt_text        |-> event.prompt_text,
    agent_id           |-> event.agent_id,
    agent_type         |-> event.agent_type,
    synced_at          |-> NULL ]

\* ------------------------------------------------------------------------
\* Idempotent store (db.ts)
\* ------------------------------------------------------------------------
\* COALESCE(v, d) of SQL.
COALESCE(v, d) == IF v = NULL THEN d ELSE v

\* Variant: the index lists the bare columns, without COALESCE.
DedupKeyNoCoalesce(r) ==
  << r.session_id, r.timestamp, r.event_type, r.tool_name_raw, r.tool_input >>

\* The indexed expression list of the unique index idx_events_dedup.
DedupKey(r) ==
  << r.session_id, r.timestamp, r.event_type,
     COALESCE(r.tool_name_raw, ""), COALESCE(r.tool_input, "") >>

KeysOf(rows) == { DedupKey(r) : r \in rows }

\* CREATE TABLE events: the NOT NULL columns.  bun:sqlite binds undefined as
\* NULL.
ViolatesNotNull(r) ==
  \/ r.id = NoNum
  \/ r.timestamp = NoNum
  \/ r.user_id = NULL
  \/ r.session_id = NULL
  \/ r.event_type = NULL
  \/ r.source = NULL

\* Variant: the table has no dedup index, only its primary key.
ConflictsPrimaryKeyOnly(rows, r) ==
  \E x \in rows : x.id = r.id

\* A uniqueness conflict: the primary key, or the dedup index.
Conflicts(rows, r) ==
  \E x \in rows : x.id = r.id \/ DedupKey(x) = DedupKey(r)

\* result.changes of one INSERT OR IGNORE: 1 when the row went in.
Changes(rows, r) ==
  IF ViolatesNotNull(r) \/ Conflicts(rows, r) THEN 0 ELSE 1

\* Variant: INSERT OR REPLACE, the conflicting rows give way to the new one.
InsertOrReplace(rows, r) ==
  IF ViolatesNotNull(r) THEN rows
  ELSE { x \in rows : ~(x.id = r.id \/ DedupKey(x) = DedupKey(r)) } \cup {r}

\* INSERT OR IGNORE INTO events: the rows after the statement.
InsertOrIgnore(rows, r) ==
  IF Changes(rows, r) = 1 THEN rows \cup {r} ELSE rows

\* The loop of insertEvents run to its end on a private copy of the table:
\* the rows and the counter after every event of the batch.
RECURSIVE InsertLoop(_, _, _, _)
InsertLoop(rows, evts, k, inserted) ==
  IF k > Len(evts) THEN [rows |-> rows, inserted |-> inserted]
  ELSE InsertLoop(InsertOrIgnore(rows, evts[k]), evts, k + 1,
                  inserted + Changes(rows, evts[k]))

\* insertEvents as one committed transaction.
insertEvents(rows, evts) ==
  LET r == InsertLoop(rows, evts, 1, 0)
  IN [rows |-> r.rows, inserted |-> r.inserted, skipped |-> Len(evts) - r.inserted]

\* ------------------------------------------------------------------------
\* Transcript values shared by the adapters (ingest/*.ts)
\* ------------------------------------------------------------------------
\* A timestamp is a number, in the order of the ISO strings; 0 is a missing
\* or empty timestamp, which JavaScript takes as false.
NoTs == 0

\* A JSON string value is the sequence of its lines, what split('\n')
\* returns for it: the empty string is <<"">>.  NoText is a value that is not
\* a string.
NoText == << >>

\* Variant: the newline characters are counted, not what they separate.
countNewlines(text) == Len(text) - 1

\* countLines, the same in every adapter.
countLines(text) == IF text = <<"">> THEN 0 ELSE Len(text)

\* The arguments object of a tool invocation.  json is its JSON.stringify
\* text; isObject is false when the block has no arguments object.
InputFields == {"json", "file_path", "path", "workdir", "subagent_type"}
TextFields == {"content", "old_string", "new_string"}

ToolInput(o) ==
  [f \in InputFields \cup TextFields \cup {"isObject"} |->
     IF f \in DOMAIN o THEN o[f]
     ELSE IF f = "isObject" THEN TRUE
     ELSE IF f \in TextFields THEN NoText
     ELSE NULL]

NoInput == ToolInput([isObject |-> FALSE])

\* JSON.stringify of the arguments; undefined for undefined.
JSONstringify(input) == IF input.isObject THEN input.json ELSE NULL

\* The FileInfo struct; {} leaves every property undefined.
NoFileInfo ==
  [file_path |-> NULL, file_action |-> NULL, file_lines_added |-> NoNum,
   file_lines_removed |-> NoNum]

LinesOf(text) == IF text # NoText THEN countLines(text) ELSE NoNum

\* extractFileInfo of claude.ts.
claudeExtractFileInfo(toolName, input) ==
  IF ~input.isObject THEN NoFileInfo
  ELSE IF toolName = "Read" THEN
    IF input.file_path # NULL
    THEN [NoFileInfo EXCEPT !.file_path = input.file_path]
    ELSE NoFileInfo
  ELSE IF toolName = "Write" THEN
    IF input.file_path # NULL
    THEN [file_path |-> input.file_path, file_action |-> "update",
          file_lines_added |-> LinesOf(input.content), file_lines_removed |-> NoNum]
    ELSE NoFileInfo
  ELSE IF toolName \in {"Edit", "MultiEdit"} THEN
    IF input.file_path # NULL
    THEN [file_path |-> input.file_path, file_action |-> "update",
          file_lines_removed |-> LinesOf(input.old_string),
          file_lines_added |-> LinesOf(input.new_string)]
    ELSE NoFileInfo
  ELSE NoFileInfo

\* extractFileInfo of codex.ts.
codexExtractFileInfo(toolName, args) ==
  LET filePath == Nullish(args.path, args.file_path)
  IN IF toolName = "read_file" THEN
       IF filePath # NULL THEN [NoFileInfo EXCEPT !.file_path = filePath] ELSE NoFileInfo
     ELSE IF toolName = "write_file" THEN
       IF filePath # NULL
       THEN [file_path |-> filePath, file_action |-> "update",
             file_lines_added |-> LinesOf(args.content), file_lines_removed |-> NoNum]
       ELSE NoFileInfo
     ELSE IF toolName = "patch_file" THEN
       IF filePath # NULL
       THEN [NoFileInfo EXCEPT !.file_path = filePath, !.file_action = "update"]
       ELSE NoFileInfo
     ELSE IF toolName = "delete_file" THEN
       IF filePath # NULL
       THEN [NoFileInfo EXCEPT !.file_path = filePath, !.file_action = "delete"]
       ELSE NoFileInfo
     ELSE IF toolName = "shell_command" THEN
       IF args.workdir # NULL THEN [NoFileInfo EXCEPT !.file_path = args.workdir] ELSE NoFileInfo
     ELSE NoFileInfo

\* extractFileInfo of gemini.ts; the arguments the model draws have none of
\* the alternative property names target, directory, cwd, dir, pattern.
geminiExtractFileInfo(toolName, args) ==
  LET filePath == Nullish(args.path, args.file_path)
  IN IF toolName = "read_file" THEN
       IF filePath # NULL THEN [NoFileInfo EXCEPT !.file_path = filePath] ELSE NoFileInfo
     ELSE IF toolName = "write_file" THEN
       IF filePath # NULL
       THEN [file_path |-> filePath, file_action |-> "update",
             file_lines_added |-> LinesOf(args.content), file_lines_removed |-> NoNum]
       ELSE NoFileInfo
     ELSE IF toolName = "replace" THEN
       IF filePath # NULL
       THEN [NoFileInfo EXCEPT !.file_path = filePath, !.file_action = "update"]
       ELSE NoFileInfo
     ELSE IF toolName = "run_shell_command" THEN
       IF args.workdir # NULL THEN [NoFileInfo EXCEPT !.file_path = args.workdir] ELSE NoFileInfo
     ELSE IF toolName \in {"list_directory", "search_file_content"} THEN
       IF args.path # NULL THEN [NoFileInfo EXCEPT !.file_path = args.path] ELSE NoFileInfo
     ELSE NoFileInfo

\* a || b on property values
Falsy(a, b) == IF a = NULL \/ a = "" THEN b ELSE a

\* extractFileInfo of cursor.ts; the arguments the model draws have no
\* old_text or new_text.
cursorExtractFileInfo(toolName, input) ==
  LET filePath == Falsy(input.file_path, input.path)
  IN IF ~input.isObject THEN NoFileInfo
     ELSE IF toolName \in {"read_file", "Read"} THEN
       IF filePath # NULL THEN [NoFileInfo EXCEPT !.file_path = filePath] ELSE NoFileInfo
     ELSE IF toolName \in {"write_file", "Write"} THEN
       IF filePath # NULL
       THEN [file_path |-> filePath, file_action |-> "update",
             file_lines_added |-> LinesOf(input.content), file_lines_removed |-> NoNum]
       ELSE NoFileInfo
     ELSE IF toolName \in {"edit_file", "Edit", "MultiEdit"} THEN
       IF filePath # NULL
       THEN [file_path |-> filePath, file_action |-> "update",
             file_lines_removed |-> LinesOf(input.old_string),
             file_lines_added |-> LinesOf(input.new_string)]
       ELSE NoFileInfo
     ELSE NoFileInfo

\* One content block of a message: text, thinking, tool_use or tool_result;
\* a Codex function_call and a Gemini toolCalls element are tool_use blocks,
\* the latter with a timestamp of its own.
Block(type) ==
  [type |-> type, name |-> NULL, input |-> NoInput, timestamp |-> NoTs, text |-> NULL]
ToolUse(name, input) == [Block("tool_use") EXCEPT !.name = name, !.input = input]

\* message.usage of a Claude or Cursor entry.  The same struct carries
\* total_token_usage of a Codex token_count (cache_read_input_tokens for
\* cached_input_tokens, reasoning_output_tokens) and tokens of a Gemini
\* message (input_tokens for input, output_tokens for output, total).
NoUsage ==
  [present |-> FALSE, input_tokens |-> NoNum, cache_read_input_tokens |-> NoNum,
   cache_creation_input_tokens |-> NoNum, output_tokens |-> NoNum,
   reasoning_output_tokens |-> NoNum, total |-> NoNum]

Usage(input, cacheRead, output) ==
  [NoUsage EXCEPT !.present = TRUE, !.input_tokens = input,
                  !.cache_read_input_tokens = cacheRead, !.output_tokens = output]

\* n ?? 0
OrZero(n) == IF n = NoNum THEN 0 ELSE n

\* n || undefined
OrUndefined(n) == IF n = 0 THEN NoNum ELSE n

Max(a, b) == IF a >= b THEN a ELSE b

\* input_tokens + cache_read_input_tokens + cache_creation_input_tokens
InputTokens(usage) ==
  OrZero(usage.input_tokens) + OrZero(usage.cache_read_input_tokens)
    + OrZero(usage.cache_creation_input_tokens)

\* One line of a transcript (one message of a Gemini document).  valid is
\* false for a line that is not JSON; text is the content when it is a
\* string, content the blocks when it is an array; ptype is payload.type of
\* a Codex entry.
EntryFields ==
  {"valid", "type", "role", "ptype", "timestamp", "lastUpdated", "sessionId", "uuid",
   "cwd", "gitBranch", "gitUrl", "text", "content", "usage", "model"}

Entry(o) ==
  [f \in EntryFields |->
     IF f \in DOMAIN o THEN o[f]
     ELSE IF f = "valid" THEN TRUE
     ELSE IF f \in {"timestamp", "lastUpdated"} THEN NoTs
     ELSE IF f = "content" THEN << >>
     ELSE IF f = "usage" THEN NoUsage
     ELSE NULL]

\* The hook payload on stdin.  With a SubagentStop payload go the lines of
\* the parent transcript it names, if that can be read, and the number of
\* the Task invocation among them that started the agent.
NoHook ==
  [present |-> FALSE, session_id |-> NULL, cwd |-> NULL, model |-> NULL,
   agent_id |-> NULL, parentReadable |-> FALSE, parent |-> << >>, task |-> 0]

\* The local variables of a parse function at its start.
ParserStart(sessionId, sessionCwd, model) ==
  [ turnIndex                  |-> 0,
    sessionId                  |-> sessionId,
    sessionCwd                 |-> sessionCwd,
    sessionGitBranch           |-> NULL,
    sessionGitRepo             |-> NULL,
    firstTimestamp             |-> NoTs,
    lastTimestamp              |-> NoTs,
    seen                       |-> {},
    currentTurnInputTokens     |-> 0,
    currentTurnOutputTokens    |-> 0,
    currentTurnModel           |-> model,
    currentTurnTimestamp       |-> NoTs,
    currentTurnToolCalls       |-> << >>,
    hasPendingAssistantMessage |-> FALSE ]

\* content?.some(block => block.type === 'text' || block.type === 'tool_use')
HasContent(entry) ==
  \E i \in 1..Len(entry.content) : entry.content[i].type \in {"text", "tool_use"}

ToolUses(entry) == SelectSeq(entry.content, LAMBDA b : b.type = "tool_use")

\* The result of a step of a parse function: its variables and its events.
PS(s, evs) == [st |-> s, events |-> evs]

\* ------------------------------------------------------------------------
\* Claude adapter, main transcript (ingest/claude.ts)
\* ------------------------------------------------------------------------
\* flushTurn of parseClaudeTranscript.
\* A flushTurn that pushes the tool calls of the turn before its turn_end.
claudeFlushTurnToolsFirst(s, evs) ==
  LET idx1 == s.turnIndex + 1
      ev(type, name) ==
        createParsedEvent(
          [timestamp |-> s.currentTurnTimestamp, session_id |-> s.sessionId,
           event_type |-> type, turn_index |-> idx1, tool_name_raw |-> name])
      toolCalls == [i \in 1..Len(s.currentTurnToolCalls) |->
                      ev("tool_call", s.currentTurnToolCalls[i].name)]
      reset == [s EXCEPT !.currentTurnInputTokens = 0,
                         !.currentTurnModel = NULL,
                         !.currentTurnTimestamp = NoTs,
                         !.currentTurnToolCalls = << >>]
  IN IF s.currentTurnTimestamp # NoTs /\ s.sessionId # NULL
     THEN PS([reset EXCEPT !.turnIndex = idx1], evs \o toolCalls \o << ev("turn_end", NULL) >>)
     ELSE PS(reset, evs)

\* A flushTurn that takes an index whether or not it emits a turn_end.
claudeFlushTurnCounting(s, evs) ==
  PS([s EXCEPT !.turnIndex = @ + 1,
               !.currentTurnInputTokens = 0,
               !.currentTurnModel = NULL,
               !.currentTurnTimestamp = NoTs,
               !.currentTurnToolCalls = << >>],
     IF s.currentTurnTimestamp # NoTs /\ s.sessionId # NULL
     THEN Append(evs, createParsedEvent(
                        [timestamp |-> s.currentTurnTimestamp,
                         session_id |-> s.sessionId, event_type |-> "turn_end",
                         turn_index |-> s.turnIndex + 1]))
     ELSE evs)

claudeFlushTurn(s, evs) ==
  LET idx1 == s.turnIndex + 1
      turnEnd ==
        createParsedEvent(
          [timestamp |-> s.currentTurnTimestamp, session_id |-> s.sessionId,
           event_type |-> "turn_end", turn_index |-> idx1, model |-> s.currentTurnModel,
           prompt_tokens |-> OrUndefined(s.currentTurnInputTokens)])
      toolCalls ==
        [i \in 1..Len(s.currentTurnToolCalls) |->
           LET tool == s.currentTurnToolCalls[i]
           IN createParsedEvent(
                [timestamp |-> s.currentTurnTimestamp, session_id |-> s.sessionId,
                 event_type |-> "tool_call", turn_index |-> idx1,
                 tool_name_raw |-> tool.name, tool_input |-> JSONstringify(tool.input),
                 file_path |-> tool.fileInfo.file_path,
                 file_action |-> tool.fileInfo.file_action,
                 file_lines_added |-> tool.fileInfo.file_lines_added,
                 file_lines_removed |-> tool.fileInfo.file_lines_removed])]
      emit == s.currentTurnTimestamp # NoTs /\ s.sessionId # NULL
      reset == [s EXCEPT !.currentTurnInputTokens = 0,
                         !.currentTurnModel = NULL,
                         !.currentTurnTimestamp = NoTs,
                         !.currentTurnToolCalls = << >>]
  IN IF emit
     THEN PS([reset EXCEPT !.turnIndex = idx1], evs \o <<turnEnd>> \o toolCalls)
     ELSE PS(reset, evs)

\* The body of the for loop of parseClaudeTranscript for one parsed line.
claudeEntry(s0, evs, entry) ==
  IF entry.sessionId = NULL \/ entry.timestamp = NoTs THEN PS(s0, evs)
  ELSE
    LET s == [s0 EXCEPT !.sessionId = Nullish(@, entry.sessionId),
                        !.sessionCwd = Nullish(@, entry.cwd),
                        !.sessionGitBranch = Nullish(@, entry.gitBranch),
                        !.firstTimestamp = IF @ = NoTs THEN entry.timestamp ELSE @,
                        !.lastTimestamp = entry.timestamp]
    IN IF entry.type = "user" /\ entry.role = "user" THEN
         LET f == claudeFlushTurn(s, evs)
         IN PS(f.st,
               Append(f.events,
                 createParsedEvent(
                   [timestamp |-> entry.timestamp, session_id |-> f.st.sessionId,
                    event_type |-> "prompt", cwd |-> f.st.sessionCwd,
                    git_branch |-> f.st.sessionGitBranch, prompt_text |-> entry.text])))
       ELSE IF entry.type = "assistant" /\ entry.role = "assistant" THEN
         IF entry.uuid \in s.seen THEN PS(s, evs)
         ELSE
           LET s1 == [s EXCEPT !.seen = @ \cup {entry.uuid}]
           IN IF ~HasContent(entry) THEN PS(s1, evs)
              ELSE
                LET tools == ToolUses(entry)
                IN PS([s1 EXCEPT
                         !.currentTurnInputTokens =
                            IF entry.usage.present
                            THEN Max(@, InputTokens(entry.usage)) ELSE @,
                         !.currentTurnModel = Nullish(@, entry.model),
                         !.currentTurnTimestamp = entry.timestamp,
                         !.currentTurnToolCalls =
                            @ \o [i \in 1..Len(tools) |->
                                    [name |-> tools[i].name, input |-> tools[i].input,
                                     timestamp |-> entry.timestamp,
                                     fileInfo |-> claudeExtractFileInfo(tools[i].name,
                                                                        tools[i].input)]]],
                      evs)
       ELSE PS(s, evs)

\* The end of parseClaudeTranscript and parseCodexTranscript: session_start
\* goes to the front of the events and session_end to the back.
Bracket(s, evs, extra) ==
  LET start == IF s.sessionId # NULL /\ s.firstTimestamp # NoTs
               THEN << createParsedEvent(
                         [timestamp |-> s.firstTimestamp, session_id |-> s.sessionId,
                          event_type |-> "session_start", cwd |-> s.sessionCwd,
                          git_branch |-> s.sessionGitBranch] @@ extra) >>
               ELSE << >>
      end == IF s.sessionId # NULL /\ s.lastTimestamp # NoTs
             THEN << createParsedEvent(
                       [timestamp |-> s.lastTimestamp, session_id |-> s.sessionId,
                        event_type |-> "session_end", cwd |-> s.sessionCwd,
                        git_branch |-> s.sessionGitBranch] @@ extra) >>
             ELSE << >>
  IN start \o evs \o end

\* The end of parseClaudeTranscript without the last flushTurn.
claudeFinishNoFlush(s, evs) == PS(s, Bracket(s, evs, << >>))

\* After the loop of parseClaudeTranscript: the last flush and the bracket.
claudeFinish(s, evs) ==
  LET f == claudeFlushTurn(s, evs)
  IN PS(f.st, Bracket(f.st, f.events, << >>))

\* ------------------------------------------------------------------------
\* Claude adapter, subagent transcript (ingest/claude.ts)
\* ------------------------------------------------------------------------
\* A scan of the parent transcript that passes over a line that is not JSON.
RECURSIVE ScanParentSkipping(_, _)
ScanParentSkipping(lines, k) ==
  IF k > Len(lines) THEN [threw |-> FALSE, type |-> NULL]
  ELSE
    LET tasks == SelectSeq(lines[k].content,
                   LAMBDA b : b.type = "tool_use" /\ b.name = "Task"
                              /\ b.input.subagent_type # NULL)
    IN IF lines[k].valid /\ tasks # << >>
       THEN [threw |-> FALSE, type |-> tasks[1].input.subagent_type]
       ELSE ScanParentSkipping(lines, k + 1)

\* The first Task invocation with a subagent_type in the lines of the parent
\* transcript, as far as the lines parse: [found, type, threw].
RECURSIVE ScanParent(_, _)
ScanParent(lines, k) ==
  IF k > Len(lines) THEN [threw |-> FALSE, type |-> NULL]
  ELSE IF ~lines[k].valid THEN [threw |-> TRUE, type |-> NULL]
  ELSE
    LET entry == lines[k]
        tasks == SelectSeq(entry.content,
                   LAMBDA b : b.type = "tool_use" /\ b.name = "Task"
                              /\ b.input.subagent_type # NULL)
    IN IF entry.type = "assistant" /\ entry.role = "assistant" /\ tasks # << >>
       THEN [threw |-> FALSE, type |-> tasks[1].input.subagent_type]
       ELSE ScanParent(lines, k + 1)

\* extractAgentTypeFromParentTranscript: the agentId is not looked at; any
\* exception gives undefined.
extractAgentTypeFromParentTranscript(payload, agentId) ==
  IF ~payload.parentReadable THEN NULL
  ELSE ScanParent(payload.parent, 1).type

\* The body of the for loop of parseClaudeSubagentTranscript for one parsed
\* line.
subagentEntry(s0, evs, entry, payload) ==
  IF entry.timestamp = NoTs THEN PS(s0, evs)
  ELSE
    LET agentType == extractAgentTypeFromParentTranscript(payload, payload.agent_id)
        agent == [agent_id |-> payload.agent_id, agent_type |-> agentType]
        s == [s0 EXCEPT !.sessionGitBranch = Nullish(@, entry.gitBranch),
                        !.firstTimestamp = IF @ = NoTs THEN entry.timestamp ELSE @,
                        !.lastTimestamp = entry.timestamp]
    IN IF entry.type = "user" /\ entry.role = "user" THEN
         PS(s, Append(evs,
                 createParsedEvent(
                   [timestamp |-> entry.timestamp, session_id |-> payload.session_id,
                    event_type |-> "prompt", cwd |-> s.sessionCwd,
                    git_branch |-> s.sessionGitBranch, prompt_text |-> entry.text]
                   @@ agent)))
       ELSE IF entry.type = "assistant" /\ entry.role = "assistant" THEN
         IF ~HasContent(entry) THEN PS(s, evs)
         ELSE
           LET idx1 == s.turnIndex + 1
               inputTokens == IF entry.usage.present THEN InputTokens(entry.usage) ELSE NoNum
               outputTokens == IF entry.usage.present THEN entry.usage.output_tokens ELSE NoNum
               tools == ToolUses(entry)
               turnEnd ==
                 createParsedEvent(
                   [timestamp |-> entry.timestamp, session_id |-> payload.session_id,
                    event_type |-> "turn_end", turn_index |-> idx1, model |-> entry.model,
                    prompt_tokens |-> inputTokens, completion_tokens |-> outputTokens,
                    total_tokens |-> IF inputTokens # NoNum /\ outputTokens # NoNum
                                     THEN inputTokens + outputTokens ELSE NoNum]
                   @@ agent)
               toolCalls ==
                 [i \in 1..Len(tools) |->
                    LET fileInfo == claudeExtractFileInfo(tools[i].name, tools[i].input)
                    IN createParsedEvent(
                         [timestamp |-> entry.timestamp, session_id |-> payload.session_id,
                          event_type |-> "tool_call", turn_index |-> idx1,
                          tool_name_raw |-> tools[i].name,
                          tool_input |-> JSONstringify(tools[i].input),
                          file_path |-> fileInfo.file_path,
                          file_action |-> fileInfo.file_action,
                          file_lines_added |-> fileInfo.file_lines_added,
                          file_lines_removed |-> fileInfo.file_lines_removed]
                         @@ agent)]
           IN PS([s EXCEPT !.turnIndex = idx1], evs \o <<turnEnd>> \o toolCalls)
       ELSE PS(s, evs)

\* Variant: the bracket is built like that of the main parser, from the
\* session alone.
subagentFinishUntagged(s, evs, payload) ==
  LET ev(ts, type) ==
        createParsedEvent(
          [timestamp |-> ts, session_id |-> payload.session_id, event_type |-> type,
           cwd |-> s.sessionCwd, git_branch |-> s.sessionGitBranch])
  IN PS(s, (IF s.firstTimestamp # NoTs
            THEN << ev(s.firstTimestamp, "session_start") >> ELSE << >>)
           \o evs
           \o (IF s.lastTimestamp # NoTs
               THEN << ev(s.lastTimestamp, "session_end") >> ELSE << >>))

\* After the loop of parseClaudeSubagentTranscript: the bracket, whatever
\* the session id.
subagentFinish(s, evs, payload) ==
  LET agentType == extractAgentTypeFromParentTranscript(payload, payload.agent_id)
      ev(ts, type) ==
        createParsedEvent(
          [timestamp |-> ts, session_id |-> payload.session_id, event_type |-> type,
           cwd |-> s.sessionCwd, git_branch |-> s.sessionGitBranch,
           agent_id |-> payload.agent_id, agent_type |-> agentType])
  IN PS(s, (IF s.firstTimestamp # NoTs
            THEN << ev(s.firstTimestamp, "session_start") >> ELSE << >>)
           \o evs
           \o (IF s.lastTimestamp # NoTs
               THEN << ev(s.lastTimestamp, "session_end") >> ELSE << >>))

\* ------------------------------------------------------------------------
\* Codex adapter (ingest/codex.ts)
\* ------------------------------------------------------------------------
\* parseGitRepoFromUrl of cache.ts on the URLs the model draws.
parseGitRepoFromUrl(url) ==
  IF url = "https://github.com/owner/repo.git" THEN "owner/repo" ELSE NULL

\* A flushTurn of Codex that takes an index whether or not it emits a
\* turn_end.
codexFlushTurnCounting(s, evs) ==
  PS([s EXCEPT !.turnIndex = @ + 1,
               !.currentTurnModel = NULL,
               !.currentTurnTimestamp = NoTs,
               !.currentTurnInputTokens = 0,
               !.currentTurnOutputTokens = 0,
               !.currentTurnToolCalls = << >>,
               !.hasPendingAssistantMessage = FALSE],
     IF s.currentTurnTimestamp # NoTs /\ s.sessionId # NULL /\ s.hasPendingAssistantMessage
     THEN Append(evs, createParsedEvent(
                        [timestamp |-> s.currentTurnTimestamp,
                         session_id |-> s.sessionId, event_type |-> "turn_end",
                         turn_index |-> s.turnIndex + 1]))
     ELSE evs)

\* flushTurn of parseCodexTranscript.
codexFlushTurn(s, evs) ==
  LET idx1 == s.turnIndex + 1
      context == [cwd |-> s.sessionCwd, git_branch |-> s.sessionGitBranch,
                  git_repo |-> s.sessionGitRepo]
      turnEnd ==
        createParsedEvent(
          [timestamp |-> s.currentTurnTimestamp, session_id |-> s.sessionId,
           event_type |-> "turn_end", turn_index |-> idx1, model |-> s.currentTurnModel,
           prompt_tokens |-> OrUndefined(s.currentTurnInputTokens),
           completion_tokens |-> OrUndefined(s.currentTurnOutputTokens),
           total_tokens |->
             OrUndefined(s.currentTurnInputTokens + s.currentTurnOutputTokens)]
          @@ context)
      toolCalls ==
        [i \in 1..Len(s.currentTurnToolCalls) |->
           LET tool == s.currentTurnToolCalls[i]
           IN createParsedEvent(
                [timestamp |-> tool.timestamp, session_id |-> s.sessionId,
                 event_type |-> "tool_call", turn_index |-> idx1,
                 tool_name_raw |-> tool.name, tool_input |-> JSONstringify(tool.input),
                 file_path |-> tool.fileInfo.file_path,
                 file_action |-> tool.fileInfo.file_action,
                 file_lines_added |-> tool.fileInfo.file_lines_added,
                 file_lines_removed |-> tool.fileInfo.file_lines_removed]
                @@ context)]
      emit == /\ s.currentTurnTimestamp # NoTs
              /\ s.sessionId # NULL
              /\ s.hasPendingAssistantMessage
      reset == [s EXCEPT !.currentTurnModel = NULL,
                         !.currentTurnTimestamp = NoTs,
                         !.currentTurnInputTokens = 0,
                         !.currentTurnOutputTokens = 0,
                         !.currentTurnToolCalls = << >>,
                         !.hasPendingAssistantMessage = FALSE]
  IN IF emit
     THEN PS([reset EXCEPT !.turnIndex = idx1], evs \o <<turnEnd>> \o toolCalls)
     ELSE PS(reset, evs)

\* JSON.parse(arguments ?? '{}') with {} on a parse error.
codexArgs(input) == IF input.isObject THEN input ELSE ToolInput([json |-> "{}"])

\* The body of the for loop of parseCodexTranscript for one parsed line.
codexEntry(s0, evs, entry) ==
  IF entry.timestamp = NoTs THEN PS(s0, evs)
  ELSE
    LET s == [s0 EXCEPT !.firstTimestamp = IF @ = NoTs THEN entry.timestamp ELSE @,
                        !.lastTimestamp = entry.timestamp]
    IN IF entry.type = "session_meta" THEN
         PS([s EXCEPT !.sessionId = Nullish(@, entry.sessionId),
                      !.sessionCwd = Nullish(@, entry.cwd),
                      !.sessionGitBranch = Nullish(@, entry.gitBranch),
                      !.sessionGitRepo =
                         IF @ = NULL /\ entry.gitUrl # NULL
                         THEN parseGitRepoFromUrl(entry.gitUrl) ELSE @],
            evs)
       ELSE IF entry.type = "turn_context" THEN
         PS([s EXCEPT !.currentTurnModel = entry.model,
                      !.sessionCwd = Nullish(@, entry.cwd)],
            evs)
       ELSE IF entry.type = "event_msg" THEN
         IF entry.ptype = "user_message" THEN
           LET f == codexFlushTurn(s, evs)
           IN IF f.st.sessionId # NULL
              THEN PS(f.st,
                      Append(f.events,
                        createParsedEvent(
                          [timestamp |-> entry.timestamp, session_id |-> f.st.sessionId,
                           event_type |-> "prompt", cwd |-> f.st.sessionCwd,
                           git_branch |-> f.st.sessionGitBranch,
                           git_repo |-> f.st.sessionGitRepo,
                           prompt_text |-> entry.text])))
              ELSE f
         ELSE IF entry.ptype = "agent_message" THEN
           PS([s EXCEPT !.hasPendingAssistantMessage = TRUE,
                        !.currentTurnTimestamp = entry.timestamp],
              evs)
         ELSE IF entry.ptype = "token_count" /\ entry.usage.present THEN
           PS([s EXCEPT
                 !.currentTurnInputTokens =
                    Max(@, entry.usage.input_tokens + entry.usage.cache_read_input_tokens),
                 !.currentTurnOutputTokens =
                    Max(@, entry.usage.output_tokens + entry.usage.reasoning_output_tokens)],
              evs)
         ELSE IF entry.ptype = "turn_aborted" THEN codexFlushTurn(s, evs)
         ELSE PS(s, evs)
       ELSE IF entry.type = "response_item" THEN
         IF entry.ptype = "function_call" THEN
           LET call == entry.content[1]
               name == Nullish(call.name, "")
               args == codexArgs(call.input)
           IN PS([s EXCEPT
                    !.currentTurnToolCalls =
                       Append(@, [name |-> name, input |-> args,
                                  timestamp |-> entry.timestamp,
                                  fileInfo |-> codexExtractFileInfo(name, args)]),
                    !.currentTurnTimestamp = entry.timestamp,
                    !.hasPendingAssistantMessage = TRUE],
                 evs)
         ELSE IF entry.ptype = "function_call_output" THEN PS(s, evs)
         ELSE IF entry.ptype = "message" /\ entry.role = "assistant" THEN
           PS([s EXCEPT !.hasPendingAssistantMessage = TRUE,
                        !.currentTurnTimestamp = entry.timestamp],
              evs)
         ELSE PS(s, evs)
       ELSE PS(s, evs)

\* After the loop of parseCodexTranscript: the last flush and the bracket.
codexFinish(s, evs) ==
  LET f == codexFlushTurn(s, evs)
  IN PS(f.st, Bracket(f.st, f.events, [git_repo |-> f.st.sessionGitRepo]))

\* ------------------------------------------------------------------------
\* Gemini adapter (ingest/gemini.ts)
\* ------------------------------------------------------------------------
\* Variant: the session id of the document goes before the payload's.
geminiOpenTranscriptFirst(s, transcript, payload) ==
  [s EXCEPT !.sessionId = IF transcript.sessionId # NULL
                          THEN transcript.sessionId ELSE payload.session_id,
            !.sessionCwd = IF payload.present THEN payload.cwd ELSE NULL,
            !.firstTimestamp = transcript.timestamp,
            !.lastTimestamp = transcript.lastUpdated]

\* The document parsed: sessionId, startTime and lastUpdated of its top
\* level.
geminiOpen(s, transcript, payload) ==
  [s EXCEPT !.sessionId = IF payload.present /\ payload.session_id # NULL
                          THEN payload.session_id ELSE transcript.sessionId,
            !.sessionCwd = IF payload.present THEN payload.cwd ELSE NULL,
            !.firstTimestamp = transcript.timestamp,
            !.lastTimestamp = transcript.lastUpdated]

\* The body of the for loop of parseGeminiTranscript for one message.
geminiMessage(s0, evs, message) ==
  IF message.timestamp = NoTs THEN PS(s0, evs)
  ELSE
    LET s == [s0 EXCEPT !.lastTimestamp = message.timestamp]
    IN IF message.type = "user" THEN
         PS(s, Append(evs,
                 createParsedEvent(
                   [timestamp |-> message.timestamp, session_id |-> s.sessionId,
                    event_type |-> "prompt", cwd |-> s.sessionCwd,
                    prompt_text |-> message.text])))
       ELSE IF message.type = "gemini" THEN
         LET idx1 == s.turnIndex + 1
             tokens == message.usage
             turnEnd ==
               createParsedEvent(
                 [timestamp |-> message.timestamp, session_id |-> s.sessionId,
                  event_type |-> "turn_end", turn_index |-> idx1,
                  model |-> message.model,
                  prompt_tokens |-> IF tokens.present THEN tokens.input_tokens ELSE NoNum,
                  completion_tokens |->
                    IF tokens.present THEN tokens.output_tokens ELSE NoNum,
                  total_tokens |-> IF tokens.present THEN tokens.total ELSE NoNum,
                  cwd |-> s.sessionCwd])
             toolCalls ==
               [i \in 1..Len(message.content) |->
                  LET toolCall == message.content[i]
                      fileInfo == geminiExtractFileInfo(toolCall.name, toolCall.input)
                  IN createParsedEvent(
                       [timestamp |-> IF toolCall.timestamp # NoTs
                                      THEN toolCall.timestamp ELSE message.timestamp,
                        session_id |-> s.sessionId,
                        event_type |-> "tool_call", turn_index |-> idx1,
                        tool_name_raw |-> toolCall.name,
                        tool_input |-> JSONstringify(toolCall.input),
                        file_path |-> fileInfo.file_path,
                        file_action |-> fileInfo.file_action,
                        file_lines_added |-> fileInfo.file_lines_added,
                        file_lines_removed |-> fileInfo.file_lines_removed,
                        cwd |-> s.sessionCwd])]
         IN PS([s EXCEPT !.turnIndex = idx1], evs \o <<turnEnd>> \o toolCalls)
       ELSE IF message.type = "error" THEN
         PS(s, Append(evs,
                 createParsedEvent(
                   [timestamp |-> message.timestamp, session_id |-> s.sessionId,
                    event_type |-> "error", cwd |-> s.sessionCwd])))
       ELSE PS(s, evs)

\* After the loop of parseGeminiTranscript: the bracket.
geminiFinish(s, evs) ==
  LET ev(ts, type) ==
        createParsedEvent(
          [timestamp |-> ts, session_id |-> s.sessionId, event_type |-> type,
           cwd |-> s.sessionCwd])
  IN PS(s, (IF s.sessionId # NULL /\ s.firstTimestamp # NoTs
            THEN << ev(s.firstTimestamp, "session_start") >> ELSE << >>)
           \o evs
           \o (IF s.sessionId # NULL /\ s.lastTimestamp # NoTs
               THEN << ev(s.lastTimestamp, "session_end") >> ELSE << >>))

\* ------------------------------------------------------------------------
\* Tool name normalisation (normalize.ts, schema.ts)
\* ------------------------------------------------------------------------
\* The ToolName union of schema.ts.
ToolName ==
  {"bash", "file_read", "file_write", "file_edit", "file_delete", "grep", "glob",
   "list_dir", "web_fetch", "web_search", "task", "mcp_tool", "other"}

CLAUDE_TOOL_MAP ==
  [Bash |-> "bash", Read |-> "file_read", Write |-> "file_write",
   Edit |-> "file_edit", MultiEdit |-> "file_edit", Grep |-> "grep",
   Glob |-> "glob", ListDir |-> "list_dir", WebFetch |-> "web_fetch",
   WebSearch |-> "web_search", Task |-> "task"]

CODEX_TOOL_MAP ==
  [shell_command |-> "bash", read_file |-> "file_read", write_file |-> "file_write",
   patch_file |-> "file_edit", delete_file |-> "file_delete", grep |-> "grep",
   glob |-> "glob", list_dir |-> "list_dir", web_fetch |-> "web_fetch",
   web_search |-> "web_search"]

GEMINI_TOOL_MAP ==
  [run_shell_command |-> "bash", read_file |-> "file_read",
   write_file |-> "file_write", replace |-> "file_edit",
   search_file_content |-> "grep", glob |-> "glob", list_directory |-> "list_dir",
   web_fetch |-> "web_fetch", google_web_search |-> "web_search",
   delegate_to_agent |-> "task"]

\* The property names every object literal inherits from Object.prototype.
ObjectPrototype ==
  {"constructor", "toString", "toLocaleString", "valueOf", "hasOwnProperty",
   "isPrototypeOf", "propertyIsEnumerable", "__proto__", "__defineGetter__",
   "__defineSetter__", "__lookupGetter__", "__lookupSetter__"}

\* What reading an inherited property gives: a function or the prototype
\* object, never undefined or null, never a string.
Inherited == "[object inherited from Object.prototype]"

\* map[key] on an object literal: the own property, else the inherited one,
\* else undefined.
Get(map, key) ==
  IF key \in DOMAIN map THEN map[key]
  ELSE IF key \in ObjectPrototype THEN Inherited
  ELSE NULL

\* a ?? b
Coalesce(a, b) == IF a = NULL THEN b ELSE a

normalizeToolName(rawName, source) ==
  IF source = "claude_code" THEN Coalesce(Get(CLAUDE_TOOL_MAP, rawName), "other")
  ELSE IF source = "codex" THEN Coalesce(Get(CODEX_TOOL_MAP, rawName), "other")
  ELSE IF source = "gemini" THEN Coalesce(Get(GEMINI_TOOL_MAP, rawName), "other")
  ELSE "other"

\* CURSOR_TOOL_MAP of cursor.ts.
CURSOR_TOOL_MAP ==
  [Bash |-> "bash", run_terminal_command |-> "bash", terminal |-> "bash",
   Read |-> "file_read", read_file |-> "file_read",
   Write |-> "file_write", write_file |-> "file_write",
   Edit |-> "file_edit", MultiEdit |-> "file_edit", edit_file |-> "file_edit",
   Grep |-> "grep", search_files |-> "grep", codebase_search |-> "grep",
   Glob |-> "glob", file_search |-> "glob",
   ListDir |-> "list_dir", list_directory |-> "list_dir",
   WebFetch |-> "web_fetch", WebSearch |-> "web_search", Task |-> "task"]

\* ------------------------------------------------------------------------
\* Cursor adapter (ingest/cursor.ts)
\* ------------------------------------------------------------------------
\* normalizeToolName of cursor.ts.
cursorNormalizeToolName(rawName) == Coalesce(Get(CURSOR_TOOL_MAP, rawName), "other")

\* createParsedEvent of cursor.ts: accepts tool_name and does not copy it.
cursorCreateParsedEvent(params) ==
  createParsedEvent([f \in DOMAIN params \ {"tool_name"} |-> params[f]])

\* flushTurn of parseCursorTranscript.
cursorFlushTurn(s, evs, payload) ==
  LET idx1 == s.turnIndex + 1
      turnEnd ==
        cursorCreateParsedEvent(
          [timestamp |-> s.currentTurnTimestamp, session_id |-> s.sessionId,
           event_type |-> "turn_end", turn_index |-> idx1, model |-> s.currentTurnModel,
           prompt_tokens |-> OrUndefined(s.currentTurnInputTokens)])
      toolCalls ==
        [i \in 1..Len(s.currentTurnToolCalls) |->
           LET tool == s.currentTurnToolCalls[i]
           IN cursorCreateParsedEvent(
                [timestamp |-> s.currentTurnTimestamp, session_id |-> s.sessionId,
                 event_type |-> "tool_call", turn_index |-> idx1,
                 tool_name |-> cursorNormalizeToolName(tool.name),
                 tool_name_raw |-> tool.name, tool_input |-> JSONstringify(tool.input),
                 file_path |-> tool.fileInfo.file_path,
                 file_action |-> tool.fileInfo.file_action,
                 file_lines_added |-> tool.fileInfo.file_lines_added,
                 file_lines_removed |-> tool.fileInfo.file_lines_removed])]
      emit == s.currentTurnTimestamp # NoTs /\ s.sessionId # NULL
      reset == [s EXCEPT !.currentTurnInputTokens = 0,
                         !.currentTurnModel = payload.model,
                         !.currentTurnTimestamp = NoTs,
                         !.currentTurnToolCalls = << >>]
  IN IF emit
     THEN PS([reset EXCEPT !.turnIndex = idx1], evs \o <<turnEnd>> \o toolCalls)
     ELSE PS(reset, evs)

\* The body of the for loop of parseCursorTranscript for one line; a line
\* that is not JSON is passed over.
cursorEntry(s0, evs, entry, payload) ==
  IF ~entry.valid \/ entry.timestamp = NoTs THEN PS(s0, evs)
  ELSE
    LET s1 == [s0 EXCEPT !.sessionId = Nullish(@, entry.sessionId)]
        key == << entry.type, entry.timestamp >>
    IN IF key \in s1.seen THEN PS(s1, evs)
       ELSE
         LET s == [s1 EXCEPT !.seen = @ \cup {key}]
         IN IF entry.type = "user" /\ entry.role = "user" THEN
              LET f == cursorFlushTurn(s, evs, payload)
                  texts == SelectSeq(entry.content, LAMBDA b : b.type = "text")
                  promptText == IF entry.text # NULL THEN entry.text
                                ELSE IF texts # << >> THEN texts[1].text
                                ELSE NULL
              IN IF \E i \in 1..Len(entry.content) : entry.content[i].type = "tool_result"
                 THEN f
                 ELSE PS(f.st,
                         Append(f.events,
                           cursorCreateParsedEvent(
                             [timestamp |-> entry.timestamp,
                              session_id |-> Nullish(f.st.sessionId, ""),
                              event_type |-> "prompt", cwd |-> f.st.sessionCwd,
                              prompt_text |-> promptText])))
            ELSE IF entry.type = "assistant" /\ entry.role = "assistant" THEN
              IF ~HasContent(entry) THEN PS(s, evs)
              ELSE
                LET tools == ToolUses(entry)
                IN PS([s EXCEPT
                         !.currentTurnInputTokens =
                            IF entry.usage.present
                            THEN Max(@, InputTokens(entry.usage)) ELSE @,
                         !.currentTurnModel = Nullish(@, entry.model),
                         !.currentTurnTimestamp = entry.timestamp,
                         !.currentTurnToolCalls =
                            @ \o [i \in 1..Len(tools) |->
                                    [name |-> tools[i].name, input |-> tools[i].input,
                                     timestamp |-> entry.timestamp,
                                     fileInfo |-> cursorExtractFileInfo(tools[i].name,
                                                                        tools[i].input)]]],
                      evs)
            ELSE PS(s, evs)

\* After the loop of parseCursorTranscript: the last flush, no bracket.
cursorFinish(s, evs, payload) == cursorFlushTurn(s, evs, payload)

\* ------------------------------------------------------------------------
\* A parse function as a whole
\* ------------------------------------------------------------------------
\* The loop body of the parse function of adapter a.
EntryStep(a, payload, ps, entry) ==
  IF a = "claude" THEN claudeEntry(ps.st, ps.events, entry)
  ELSE IF a = "subagent" THEN subagentEntry(ps.st, ps.events, entry, payload)
  ELSE IF a = "codex" THEN codexEntry(ps.st, ps.events, entry)
  ELSE cursorEntry(ps.st, ps.events, entry, payload)

\* The for loop over the lines from the k-th on.
RECURSIVE ParseLoop(_, _, _, _, _)
ParseLoop(a, payload, lines, k, ps) ==
  IF k > Len(lines) THEN ps
  ELSE ParseLoop(a, payload, lines, k + 1, EntryStep(a, payload, ps, lines[k]))

\* The events a line-oriented parse function returns for the lines, all of
\* them JSON.
parseTranscript(a, payload, lines) ==
  LET start == PS(ParserStart(payload.session_id, payload.cwd,
                              IF a = "cursor" THEN payload.model ELSE NULL),
                  << >>)
      ps == ParseLoop(a, payload, lines, 1, start)
  IN IF a = "claude" THEN claudeFinish(ps.st, ps.events).events
     ELSE IF a = "subagent" THEN subagentFinish(ps.st, ps.events, payload).events
     ELSE IF a = "codex" THEN codexFinish(ps.st, ps.events).events
     ELSE cursorFinish(ps.st, ps.events, payload).events

\* ------------------------------------------------------------------------
\* State
\* ------------------------------------------------------------------------
VARIABLES
  table,      \* the committed rows of the events table, as any reader sees them
  \* -- SpecStore: one entry per CLI invocation slot
  pc,         \* "idle", "run" (inside insertEvents), "done", "failed"
  batch,      \* the VibeEvent[] argument of the running call
  idx,        \* position of the for loop in the batch (1-based)
  inserted,   \* the local counter of insertEvents
  tx,         \* the table as the open write transaction has it, not yet committed
  lock,       \* holder of the database write lock
  result,     \* the value returned by the last completed call
  calls,      \* how many calls the slot has made
  prior,      \* history: a batch with these content keys was committed before the call
  delta,      \* history: rows the last commit added to / removed from the table
  log,        \* history: per event of the call, result.changes and whether the key was known
  committed   \* history: content keys of the batches committed so far

storeVars ==
  << pc, batch, idx, inserted, tx, lock, result, calls, prior, delta, log, committed >>

VARIABLES
  \* -- SpecIngest
  adapter,    \* which source the CLI was started for
  hook,       \* the hook payload read from stdin, if any
  file,       \* the lines of the transcript file read so far
  phase,      \* "idle", "parse", "parsed", "mapped", "failed"
  pos,        \* the line the parser's for loop is at (1-based)
  st,         \* the local variables of the running parse function
  events,     \* the events array of the running parse function
  mapped,     \* the VibeEvent[] the mapper returned
  reports     \* history: what each finished CLI run parsed and reported

ingestVars ==
  << adapter, hook, file, phase, pos, st, events, mapped, reports >>

VARIABLES
  \* -- SpecNormalize
  args,       \* the arguments of the call of normalizeToolName
  ret         \* what the call returned, NULL before it returns

pureVars == << args, ret >>

vars == << table, storeVars, ingestVars, pureVars >>

\* ------------------------------------------------------------------------
\* SpecStore: concurrent CLI invocations on one database file
\* ------------------------------------------------------------------------
Procs == {"p1", "p2"}
NoProc == "none"
ProcNo(p) == IF p = "p1" THEN 1 ELSE 2

NoResult == [inserted |-> NoNum, skipped |-> NoNum]
NoDelta == [added |-> {}, removed |-> {}]

\* An id no other event carries (generateUUIDv7).
FreshId(a, b, i) == (a * 10 + b) * 100 + i

\* Parsed events the batches of SpecStore are made of.  The first two differ
\* in a null against an empty tool field and in turn_index.
StoreContents ==
  { [timestamp |-> 1, session_id |-> "s1", event_type |-> "tool_call", turn_index |-> 1],
    [timestamp |-> 1, session_id |-> "s1", event_type |-> "tool_call", turn_index |-> 2,
     tool_name_raw |-> "", tool_input |-> ""],
    [timestamp |-> 2, session_id |-> "s1", event_type |-> "prompt"] }

StoreBatches == UNION { [1..n -> StoreContents] : n \in 0..MaxBatch }

\* mapToVibeEvents on the events of one batch: a fresh id per event.
MapBatch(contents, a, b) ==
  [i \in 1..Len(contents) |->
     mapEventToVibeEvent(createParsedEvent(contents[i]), "claude_code", Config, NULL,
                         FreshId(a, b, i))]

\* A record without its generated id.
NoId(r) == [f \in DOMAIN r \ {"id"} |-> r[f]]
RowsOfBatch(p) == { batch[p][i] : i \in 1..Len(batch[p]) }

\* The content keys of a batch, in order.
KeySeq(evts) == [i \in 1..Len(evts) |-> DedupKey(evts[i])]

StoreInit ==
  /\ pc = [p \in Procs |-> "idle"]
  /\ batch = [p \in Procs |-> << >>]
  /\ idx = [p \in Procs |-> 1]
  /\ inserted = [p \in Procs |-> 0]
  /\ tx = [p \in Procs |-> {}]
  /\ lock = NoProc
  /\ result = [p \in Procs |-> NoResult]
  /\ calls = [p \in Procs |-> 0]
  /\ prior = [p \in Procs |-> FALSE]
  /\ delta = [p \in Procs |-> NoDelta]
  /\ log = [p \in Procs |-> << >>]
  /\ committed = {}

\* ------------------------------------------------------------------------
\* SpecIngest: CLI runs on one transcript (cli.ts)
\* ------------------------------------------------------------------------
Adapters == {"claude", "subagent", "codex", "gemini", "cursor"}

\* ParsedTranscript.source of each adapter.
Source(a) ==
  IF a \in {"claude", "subagent"} THEN "claude_code" ELSE a

\* The hook payloads a run may be started with.
\* A SubagentStop payload names the agent and the transcript of the parent,
\* which may be unreadable; a Cursor payload names the model.
Payload == [NoHook EXCEPT !.present = TRUE, !.session_id = "hs", !.cwd = "/h"]

TaskInput ==
  ToolInput([json |-> "{\"subagent_type\":\"Explore\"}", subagent_type |-> "Explore"])

ParentLines ==
  << Entry([type |-> "assistant", role |-> "assistant", timestamp |-> 1,
            sessionId |-> "hs", content |-> << ToolUse("Task", TaskInput) >>]) >>

PlanInput ==
  ToolInput([json |-> "{\"subagent_type\":\"Plan\"}", subagent_type |-> "Plan"])

PlanLine ==
  Entry([type |-> "assistant", role |-> "assistant", timestamp |-> 2,
         sessionId |-> "hs", content |-> << ToolUse("Task", PlanInput) >>])

\* The parent transcripts of a subagent: with the one invocation, with two of
\* which the second started the agent, with a line that is not JSON before
\* or after the invocation.
Parents ==
  { [parent |-> ParentLines, task |-> 1],
    [parent |-> ParentLines \o << PlanLine >>, task |-> 2],
    [parent |-> << Entry([valid |-> FALSE]) >> \o ParentLines, task |-> 1],
    [parent |-> ParentLines \o << Entry([valid |-> FALSE]) >>, task |-> 1] }

Hooks(a) ==
  IF a = "subagent"
  THEN { [Payload EXCEPT !.agent_id = "a1"] }
       \cup { [Payload EXCEPT !.agent_id = "a1", !.parentReadable = TRUE,
                              !.parent = p.parent, !.task = p.task] : p \in Parents }
  ELSE IF a = "cursor" THEN {NoHook, [Payload EXCEPT !.model = "cm"]}
  ELSE {NoHook, Payload}

IngestInit ==
  /\ adapter \in Adapters
  /\ hook \in Hooks(adapter)
  /\ file = << >>
  /\ phase = "idle"
  /\ pos = 1
  /\ st = ParserStart(NULL, NULL, NULL)
  /\ events = << >>
  /\ mapped = << >>
  /\ reports = << >>

\* No call of normalizeToolName is under way.
PureInit ==
  /\ args = << >>
  /\ ret = NULL

Init ==
  /\ table = {}
  /\ StoreInit
  /\ IngestInit
  /\ PureInit

\* Entry of insertEvents (db.ts 82-113): the statement is prepared, the
\* counter is zero, the transaction function starts its loop.
Enter(p, evts) ==
  /\ pc' = [pc EXCEPT ![p] = "run"]
  /\ batch' = [batch EXCEPT ![p] = evts]
  /\ idx' = [idx EXCEPT ![p] = 1]
  /\ inserted' = [inserted EXCEPT ![p] = 0]
  /\ tx' = [tx EXCEPT ![p] = {}]
  /\ result' = [result EXCEPT ![p] = NoResult]
  /\ calls' = [calls EXCEPT ![p] = @ + 1]
  /\ prior' = [prior EXCEPT ![p] = KeySeq(evts) \in committed]
  /\ delta' = [delta EXCEPT ![p] = NoDelta]
  /\ log' = [log EXCEPT ![p] = << >>]
  /\ UNCHANGED << table, lock, committed, ingestVars, pureVars >>

\* A CLI invocation maps a batch and calls insertEvents with it.  The two
\* slots are interchangeable: p1 names the invocation that started first.
Call(p) ==
  /\ pc[p] = "idle"
  /\ p = "p2" => calls["p1"] > 0
  /\ \E contents \in StoreBatches : Enter(p, MapBatch(contents, ProcNo(p), calls[p]))

\* The same events are ingested again: mapped anew, so with new ids.
Resubmit(p) ==
  /\ pc[p] \in {"done", "failed"}
  /\ calls["p1"] + calls["p2"] < 2 + MaxResub
  /\ Enter(p, [i \in 1..Len(batch[p]) |->
                 [batch[p][i] EXCEPT !.id = FreshId(ProcNo(p), calls[p], i)]])

\* Variant: the statement reads the committed rows only.
SeenCommitted(p) == table

\* What a statement of p's connection reads: the rows of its own open write
\* transaction, or the committed rows when it has not written yet.
Seen(p) == IF lock = p THEN tx[p] ELSE table

\* Variant: no transaction around the loop, every insert.run commits by itself.
InsertRowAutocommit(p) ==
  /\ pc[p] = "run"
  /\ idx[p] <= Len(batch[p])
  /\ lock \in {NoProc, p}
  /\ LET event == batch[p][idx[p]]
     IN /\ table' = InsertOrIgnore(table, event)
        /\ tx' = [tx EXCEPT ![p] = table']
        /\ inserted' = [inserted EXCEPT ![p] = @ + Changes(table, event)]
        /\ log' = [log EXCEPT ![p] =
                     Append(@, [changes |-> Changes(table, event),
                                known   |-> DedupKey(event) \in KeysOf(table)])]
  /\ lock' = p
  /\ idx' = [idx EXCEPT ![p] = @ + 1]
  /\ UNCHANGED << pc, batch, result, calls, prior, delta, committed, ingestVars, pureVars >>

\* One iteration of the for loop (db.ts 114-154): insert.run inside the
\* transaction.  The first write takes the write lock of the database file;
\* until the commit the new rows exist only in the writer's transaction.
InsertRow(p) ==
  /\ pc[p] = "run"
  /\ idx[p] <= Len(batch[p])
  /\ lock \in {NoProc, p}
  /\ LET event == batch[p][idx[p]]
     IN /\ tx' = [tx EXCEPT ![p] = InsertOrIgnore(Seen(p), event)]
        /\ inserted' = [inserted EXCEPT ![p] = @ + Changes(Seen(p), event)]
        /\ log' = [log EXCEPT ![p] =
                     Append(@, [changes |-> Changes(Seen(p), event),
                                known   |-> DedupKey(event) \in KeysOf(Seen(p))])]
  /\ lock' = p
  /\ idx' = [idx EXCEPT ![p] = @ + 1]
  /\ UNCHANGED << table, pc, batch, result, calls, prior, delta, committed, ingestVars, pureVars >>

\* The loop is over: tx() commits and insertEvents returns its counts
\* (db.ts 155-159).
Commit(p) ==
  /\ pc[p] = "run"
  /\ idx[p] > Len(batch[p])
  /\ table' = Seen(p)
  /\ delta' = [delta EXCEPT ![p] = [added |-> table' \ table, removed |-> table \ table']]
  /\ tx' = [tx EXCEPT ![p] = {}]
  /\ lock' = IF lock = p THEN NoProc ELSE lock
  /\ result' = [result EXCEPT ![p] =
                  [inserted |-> inserted[p], skipped |-> Len(batch[p]) - inserted[p]]]
  /\ committed' = committed \cup {KeySeq(batch[p])}
  /\ pc' = [pc EXCEPT ![p] = "done"]
  /\ UNCHANGED << batch, idx, inserted, calls, prior, log, ingestVars, pureVars >>

\* Variant: the error is raised without a rollback, what was written stays.
StorageErrorNoRollback(p) ==
  /\ pc[p] = "run"
  /\ idx[p] <= Len(batch[p])
  /\ table' = Seen(p)
  /\ tx' = [tx EXCEPT ![p] = {}]
  /\ lock' = IF lock = p THEN NoProc ELSE lock
  /\ pc' = [pc EXCEPT ![p] = "failed"]
  /\ UNCHANGED << batch, idx, inserted, result, calls, prior, delta, log, committed, ingestVars, pureVars >>

\* insert.run throws while the k-th event is processed (disk failure, or the
\* write lock is held by another connection): the transaction function rolls
\* back and rethrows, insertEvents returns nothing.
StorageError(p) ==
  /\ pc[p] = "run"
  /\ idx[p] <= Len(batch[p])
  /\ tx' = [tx EXCEPT ![p] = {}]
  /\ lock' = IF lock = p THEN NoProc ELSE lock
  /\ pc' = [pc EXCEPT ![p] = "failed"]
  /\ UNCHANGED << table, batch, idx, inserted, result, calls, prior, delta, log, committed, ingestVars, pureVars >>

NextStore ==
  \E p \in Procs :
    \/ Call(p)
    \/ Resubmit(p)
    \/ InsertRow(p)
    \/ Commit(p)
    \/ StorageError(p)

SpecStore == Init /\ [][NextStore]_vars

\* The lines a Claude transcript is made of, before their timestamps.
\* The time of a line the alphabets draw: Later than every line before it,
\* or the SameTime as the last one.
Later == 1
SameTime == 2

BashInput == ToolInput([json |-> "{\"command\":\"ls\"}"])

ClaudeMessage(o) ==
  Entry([timestamp |-> Later, sessionId |-> "s1", cwd |-> "/w", gitBranch |-> "main"] @@ o)

ClaudeLines ==
  { ClaudeMessage([type |-> "user", role |-> "user", uuid |-> "u0", text |-> "hi"]),
    ClaudeMessage([type |-> "user", role |-> "user", uuid |-> "u0",
                   content |-> << Block("tool_result") >>]),
    ClaudeMessage([type |-> "assistant", role |-> "assistant", uuid |-> "u1",
                   content |-> << Block("text") >>, usage |-> Usage(5, NoNum, 2),
                   model |-> "opus"]),
    ClaudeMessage([type |-> "assistant", role |-> "assistant", uuid |-> "u1",
                   content |-> << Block("text") >>, usage |-> Usage(5, 3, 4),
                   model |-> "opus"]),
    ClaudeMessage([type |-> "assistant", role |-> "assistant", uuid |-> "u2",
                   content |-> << ToolUse("Bash", BashInput) >>, usage |-> Usage(5, 3, 4),
                   model |-> "opus"]),
    ClaudeMessage([type |-> "assistant", role |-> "assistant", uuid |-> "u3",
                   content |-> << ToolUse("Bash", BashInput) >>, usage |-> Usage(5, 3, 4),
                   model |-> "opus"]),
    ClaudeMessage([type |-> "assistant", role |-> "assistant", uuid |-> "u2",
                   content |-> << Block("thinking") >>]),
    Entry([type |-> "summary"]),
    Entry([valid |-> FALSE]) }

\* The lines of the transcript of a subagent, in the same format.
SubagentLines ==
  { ClaudeMessage([type |-> "user", role |-> "user", uuid |-> "u0", text |-> "hi"]),
    ClaudeMessage([type |-> "user", role |-> "user", uuid |-> "u0",
                   content |-> << Block("tool_result") >>]),
    ClaudeMessage([type |-> "assistant", role |-> "assistant", uuid |-> "u1",
                   content |-> << Block("text") >>, usage |-> Usage(5, 3, 4),
                   model |-> "opus"]),
    ClaudeMessage([type |-> "assistant", role |-> "assistant", uuid |-> "u2",
                   content |-> << ToolUse("Bash", BashInput) >>, model |-> "opus"]),
    ClaudeMessage([type |-> "assistant", role |-> "assistant", uuid |-> "u2",
                   content |-> << Block("thinking") >>]),
    Entry([valid |-> FALSE]) }

\* The lines a Codex rollout file is made of.
CodexLine(type, ptype, o) ==
  Entry([type |-> type, ptype |-> ptype, timestamp |-> Later] @@ o)

CodexLines ==
  { CodexLine("session_meta", NULL,
              [sessionId |-> "s1", cwd |-> "/w", gitBranch |-> "main",
               gitUrl |-> "https://github.com/owner/repo.git"]),
    CodexLine("turn_context", NULL, [model |-> "gpt", cwd |-> "/w"]),
    CodexLine("event_msg", "user_message", [text |-> "hi"]),
    CodexLine("event_msg", "agent_message", << >>),
    CodexLine("event_msg", "token_count",
              [usage |-> [Usage(5, 3, 2) EXCEPT !.reasoning_output_tokens = 1]]),
    CodexLine("event_msg", "turn_aborted", << >>),
    CodexLine("response_item", "function_call",
              [content |-> << ToolUse("shell_command", BashInput) >>]),
    CodexLine("response_item", "function_call", [content |-> << Block("tool_use") >>]),
    Entry([type |-> "event_msg", ptype |-> "user_message", text |-> "hi"]),
    Entry([valid |-> FALSE]) }

\* The top level of a Gemini document, and its messages.
GeminiHeaders ==
  { Entry([type |-> "header", sessionId |-> "s1", timestamp |-> Later,
           lastUpdated |-> Later]),
    Entry([type |-> "header", timestamp |-> Later, lastUpdated |-> Later]),
    Entry([valid |-> FALSE]) }

WriteInput ==
  ToolInput([json |-> "{\"file_path\":\"/w/a\",\"content\":\"x\"}",
             file_path |-> "/w/a", content |-> <<"x">>])

GeminiMessages ==
  { Entry([type |-> "user", timestamp |-> Later, text |-> "hi"]),
    Entry([type |-> "gemini", timestamp |-> Later, model |-> "gemini-pro",
           usage |-> [Usage(5, NoNum, 2) EXCEPT !.total = 7]]),
    Entry([type |-> "gemini", timestamp |-> Later,
           content |-> << [ToolUse("write_file", WriteInput) EXCEPT !.timestamp = Later] >>]),
    Entry([type |-> "gemini", timestamp |-> Later,
           content |-> << ToolUse("run_shell_command", BashInput),
                          ToolUse("run_shell_command", BashInput) >>]),
    Entry([type |-> "error", timestamp |-> Later]),
    Entry([type |-> "info", timestamp |-> Later]),
    Entry([type |-> "user", text |-> "hi"]) }

\* The lines a Cursor transcript is made of.
CursorMessage(type, o) ==
  Entry(o @@ [type |-> type, role |-> type, timestamp |-> Later, sessionId |-> "c1"])

CursorLines ==
  { CursorMessage("user", [text |-> "hi"]),
    CursorMessage("user", [text |-> "hi", sessionId |-> NULL]),
    CursorMessage("user", [content |-> << Block("tool_result") >>]),
    CursorMessage("assistant", [content |-> << Block("text") >>, usage |-> Usage(5, 3, 4),
                                model |-> "sonnet"]),
    CursorMessage("assistant", [content |-> << Block("text") >>, timestamp |-> SameTime]),
    CursorMessage("assistant", [content |-> << ToolUse("Write", WriteInput) >>]),
    Entry([valid |-> FALSE]) }

\* The timestamp of the last line written to the transcript.
RECURSIVE LastTs(_)
LastTs(lines) ==
  IF lines = << >> THEN NoTs
  ELSE IF lines[Len(lines)].timestamp # NoTs THEN lines[Len(lines)].timestamp
  ELSE LastTs(SubSeq(lines, 1, Len(lines) - 1))

\* The agent writes its lines in the order of time; lastUpdated of a Gemini
\* document and the timestamp of a tool call that has one are the time of
\* writing too.
Stamp(e, lines) ==
  LET ts == IF e.timestamp = SameTime THEN Max(LastTs(lines), 1) ELSE LastTs(lines) + 1
      stampBlock(b) == IF b.timestamp = NoTs THEN b ELSE [b EXCEPT !.timestamp = ts]
  IN IF e.timestamp = NoTs THEN e
     ELSE [e EXCEPT !.timestamp = ts,
                    !.lastUpdated = IF e.lastUpdated = NoTs THEN NoTs ELSE ts,
                    !.content = [i \in 1..Len(e.content) |-> stampBlock(e.content[i])]]

\* The line the parser reads next.  A line of the file that was read before
\* (by the first run) is read again as it is; past these the agent may have
\* written any further line of the source's format.
NextLines(alphabet) ==
  IF pos <= Len(file) THEN {file[pos]}
  ELSE IF Len(file) < MaxEntries THEN { Stamp(e, file) : e \in alphabet }
  ELSE {}

Read(e) == IF pos <= Len(file) THEN file ELSE Append(file, e)

\* What a run leaves in the history.
Report(ok, evs, res) ==
  [ ok       |-> ok,
    lines    |-> Len(file),
    parsed   |-> evs,
    batch    |-> mapped,
    inserted |-> res.inserted,
    skipped  |-> res.skipped,
    atStart  |-> table,
    \* the rows a store that was empty would hold after this batch alone
    alone    |-> insertEvents({}, mapped).rows ]

\* A failure that is reported like a run that stored an empty batch.
FailReportingCounts ==
  /\ phase' = "idle"
  /\ reports' = Append(reports, Report(TRUE, << >>, insertEvents(table, << >>)))
  /\ UNCHANGED << table, storeVars, adapter, hook, st, events, mapped, pureVars >>

\* The run ends with an error before anything is stored (cli.ts 200-203).
Fail ==
  /\ phase' = "failed"
  /\ reports' = Append(reports, Report(FALSE, << >>, NoResult))
  /\ UNCHANGED << table, storeVars, adapter, hook, st, events, mapped, pureVars >>

\* The CLI is started for the transcript (cli.ts 58-93): payload and path are
\* known, the parse function sets up its variables.
StartRun ==
  /\ \/ phase \in {"idle", "failed"}
     \/ adapter = "cursor" /\ phase = "parsed"
  /\ Len(reports) < MaxRuns
  /\ phase' = "parse"
  /\ pos' = 1
  /\ st' = ParserStart(hook.session_id, hook.cwd,
                       IF adapter = "cursor" THEN hook.model ELSE NULL)
  /\ events' = << >>
  /\ mapped' = << >>
  /\ UNCHANGED << table, storeVars, adapter, hook, file, reports, pureVars >>

\* Bun.file(path).text() throws: at this run the transcript cannot be read
\* (it is missing, or unreadable for now); what the agent wrote stays.
TranscriptUnreadable ==
  /\ phase = "parse"
  /\ pos = 1
  /\ Fail
  /\ UNCHANGED << file, pos >>

\* One iteration of the for loop of parseClaudeTranscript (claude.ts 173-238).
\* JSON.parse throws on a line that is not JSON and the run fails.
ClaudeLine ==
  /\ adapter = "claude"
  /\ phase = "parse"
  /\ \E e \in NextLines(ClaudeLines) :
       /\ file' = Read(e)
       /\ pos' = pos + 1
       /\ IF e.valid
          THEN LET r == claudeEntry(st, events, e)
               IN /\ st' = r.st
                  /\ events' = r.events
                  /\ UNCHANGED << table, storeVars, adapter, hook, phase, mapped, reports, pureVars >>
          ELSE Fail

\* The loop is over (claude.ts 240-270).
ClaudeEnd ==
  /\ adapter = "claude"
  /\ phase = "parse"
  /\ pos > Len(file)
  /\ LET r == claudeFinish(st, events)
     IN /\ st' = r.st
        /\ events' = r.events
  /\ phase' = "parsed"
  /\ UNCHANGED << table, storeVars, adapter, hook, file, pos, mapped, reports, pureVars >>

\* One iteration of the for loop of parseClaudeSubagentTranscript
\* (claude.ts 336-417); a line that is not JSON ends the run.
SubagentLine ==
  /\ adapter = "subagent"
  /\ phase = "parse"
  /\ \E e \in NextLines(SubagentLines) :
       /\ file' = Read(e)
       /\ pos' = pos + 1
       /\ IF e.valid
          THEN LET r == subagentEntry(st, events, e, hook)
               IN /\ st' = r.st
                  /\ events' = r.events
                  /\ UNCHANGED << table, storeVars, adapter, hook, phase, mapped, reports, pureVars >>
          ELSE Fail

\* The loop is over (claude.ts 419-452).
SubagentEnd ==
  /\ adapter = "subagent"
  /\ phase = "parse"
  /\ pos > Len(file)
  /\ LET r == subagentFinish(st, events, hook)
     IN /\ st' = r.st
        /\ events' = r.events
  /\ phase' = "parsed"
  /\ UNCHANGED << table, storeVars, adapter, hook, file, pos, mapped, reports, pureVars >>

\* One iteration of the for loop of parseCodexTranscript (codex.ts 272-357);
\* a line that is not JSON ends the run.
CodexEntry ==
  /\ adapter = "codex"
  /\ phase = "parse"
  /\ \E e \in NextLines(CodexLines) :
       /\ file' = Read(e)
       /\ pos' = pos + 1
       /\ IF e.valid
          THEN LET r == codexEntry(st, events, e)
               IN /\ st' = r.st
                  /\ events' = r.events
                  /\ UNCHANGED << table, storeVars, adapter, hook, phase, mapped, reports, pureVars >>
          ELSE Fail

\* The loop is over (codex.ts 359-391).
CodexEnd ==
  /\ adapter = "codex"
  /\ phase = "parse"
  /\ pos > Len(file)
  /\ LET r == codexFinish(st, events)
     IN /\ st' = r.st
        /\ events' = r.events
  /\ phase' = "parsed"
  /\ UNCHANGED << table, storeVars, adapter, hook, file, pos, mapped, reports, pureVars >>

\* parseGeminiTranscript reads the document (gemini.ts 221-244): a document
\* that is not JSON gives a transcript without events.
GeminiOpen ==
  /\ adapter = "gemini"
  /\ phase = "parse"
  /\ pos = 1
  /\ \E transcript \in NextLines(GeminiHeaders) :
       /\ file' = Read(transcript)
       /\ pos' = 2
       /\ IF transcript.valid
          THEN /\ st' = geminiOpen(st, transcript, hook)
               /\ phase' = "parse"
          ELSE /\ st' = st
               /\ phase' = "parsed"
  /\ UNCHANGED << table, storeVars, adapter, hook, events, mapped, reports, pureVars >>

\* One iteration of the for loop of parseGeminiTranscript (gemini.ts 246-310).
GeminiMessage ==
  /\ adapter = "gemini"
  /\ phase = "parse"
  /\ pos > 1
  /\ \E message \in NextLines(GeminiMessages) :
       /\ file' = Read(message)
       /\ pos' = pos + 1
       /\ LET r == geminiMessage(st, events, message)
          IN /\ st' = r.st
             /\ events' = r.events
  /\ UNCHANGED << table, storeVars, adapter, hook, phase, mapped, reports, pureVars >>

\* The loop is over (gemini.ts 312-336).
GeminiEnd ==
  /\ adapter = "gemini"
  /\ phase = "parse"
  /\ pos > 1
  /\ pos > Len(file)
  /\ LET r == geminiFinish(st, events)
     IN /\ st' = r.st
        /\ events' = r.events
  /\ phase' = "parsed"
  /\ UNCHANGED << table, storeVars, adapter, hook, file, pos, mapped, reports, pureVars >>

\* One iteration of the for loop of parseCursorTranscript (cursor.ts 197-266).
CursorLine ==
  /\ adapter = "cursor"
  /\ phase = "parse"
  /\ \E e \in NextLines(CursorLines) :
       /\ file' = Read(e)
       /\ pos' = pos + 1
       /\ LET r == cursorEntry(st, events, e, hook)
          IN /\ st' = r.st
             /\ events' = r.events
  /\ UNCHANGED << table, storeVars, adapter, hook, phase, mapped, reports, pureVars >>

\* The loop is over (cursor.ts 268-275).  The function has no caller in the
\* CLI: its result goes no further.
CursorEnd ==
  /\ adapter = "cursor"
  /\ phase = "parse"
  /\ pos > Len(file)
  /\ LET r == cursorFinish(st, events, hook)
     IN /\ st' = r.st
        /\ events' = r.events
  /\ phase' = "parsed"
  /\ UNCHANGED << table, storeVars, adapter, hook, file, pos, mapped, reports, pureVars >>

\* cli.ts 165-168: ingest --source cursor is an error.
NotImplemented ==
  /\ adapter = "cursor"
  /\ phase = "idle"
  /\ Len(reports) < MaxRuns
  /\ Fail
  /\ UNCHANGED << file, pos >>

\* The session_id field of the ParsedTranscript a parse function returns
\* (claude.ts 265-269 and 447-451, codex.ts 386-390, gemini.ts 230-234 and
\* 332-336, cursor.ts 270-274); opened: the transcript was read as JSON.
returnedSessionId(a, s, payload, opened) ==
  IF a = "subagent" THEN payload.session_id
  ELSE IF a = "gemini" /\ opened THEN s.sessionId
  ELSE Nullish(s.sessionId, "")

\* getGitRepo of cache.ts: the repository of a working directory, or null.
getGitRepo(cwd) == IF cwd = "/w" THEN "owner/repo" ELSE NULL

\* What JavaScript takes for true of an optional string: neither undefined
\* nor the empty string.
Truthy(x) == x # NULL /\ x # ""

\* Variant: the repository is looked up for every event that has a working
\* directory and no repository of its own.
gitRepoLookupsPerEvent(evs) ==
  LET need == SelectSeq(evs, LAMBDA e : Truthy(e.cwd) /\ ~Truthy(e.git_repo))
  IN [i \in 1..Len(need) |-> need[i].cwd]

\* The calls of getGitRepo that mapToVibeEvents makes (mapper.ts 8-12), as
\* the sequence of their arguments.
gitRepoLookups(evs) ==
  LET withCwd == SelectSeq(evs, LAMBDA e : Truthy(e.cwd))
  IN IF withCwd # << >> /\ ~(\E i \in 1..Len(evs) : Truthy(evs[i].git_repo))
     THEN << withCwd[1].cwd >>
     ELSE << >>

\* mapToVibeEvents mapping only the events that carry a working directory.
mapToVibeEventsWithCwdOnly(evs, source, config, run) ==
  LET withCwd == SelectSeq(evs, LAMBDA e : Truthy(e.cwd))
      lookups == gitRepoLookups(evs)
      cachedGitRepo == IF lookups # << >> THEN getGitRepo(lookups[1]) ELSE NULL
  IN [i \in 1..Len(withCwd) |->
        mapEventToVibeEvent(withCwd[i], source, config, cachedGitRepo, FreshId(0, run, i))]

\* mapToVibeEvents (mapper.ts 6-15).
mapToVibeEvents(evs, source, config, run) ==
  LET lookups == gitRepoLookups(evs)
      cachedGitRepo == IF lookups # << >> THEN getGitRepo(lookups[1]) ELSE NULL
  IN [i \in 1..Len(evs) |->
        mapEventToVibeEvent(evs[i], source, config, cachedGitRepo, FreshId(0, run, i))]

\* cli.ts 95-96, 127-128, 159-160.
MapEvents ==
  /\ adapter # "cursor"
  /\ phase = "parsed"
  /\ mapped' = mapToVibeEvents(events, Source(adapter), Config, Len(reports) + 1)
  /\ phase' = "mapped"
  /\ UNCHANGED << table, storeVars, adapter, hook, file, pos, st, events, reports, pureVars >>

\* cli.ts 98-100: insertEvents, one committed transaction, and the report.
StoreEvents ==
  /\ phase = "mapped"
  /\ LET r == insertEvents(table, mapped)
     IN /\ table' = r.rows
        /\ reports' = Append(reports, Report(TRUE, events, r))
  /\ phase' = "idle"
  /\ UNCHANGED << storeVars, adapter, hook, file, pos, st, events, mapped, pureVars >>

NextIngest ==
  \/ StartRun
  \/ TranscriptUnreadable
  \/ ClaudeLine
  \/ ClaudeEnd
  \/ SubagentLine
  \/ SubagentEnd
  \/ CodexEntry
  \/ CodexEnd
  \/ GeminiOpen
  \/ GeminiMessage
  \/ GeminiEnd
  \/ CursorLine
  \/ CursorEnd
  \/ NotImplemented
  \/ MapEvents
  \/ StoreEvents

SpecIngest == Init /\ [][NextIngest]_vars

\* ------------------------------------------------------------------------
\* SpecTurns: one parse of a longer Claude or Codex transcript in which
\* every line is well formed and every entry has a uuid of its own
\* ------------------------------------------------------------------------
\* A user-role message whose content is tool_result blocks and nothing else.
ToolResultOnly(entry) ==
  /\ entry.valid
  /\ entry.type = "user"
  /\ entry.content # << >>
  /\ \A i \in 1..Len(entry.content) : entry.content[i].type = "tool_result"

\* The lines of a Claude session with tools.
ClaudeTurnLines ==
  { ClaudeMessage([type |-> "user", role |-> "user", text |-> "hi"]),
    ClaudeMessage([type |-> "user", role |-> "user",
                   content |-> << Block("tool_result") >>]),
    ClaudeMessage([type |-> "assistant", role |-> "assistant",
                   content |-> << ToolUse("Bash", BashInput) >>, usage |-> Usage(5, 3, 4),
                   model |-> "opus"]),
    ClaudeMessage([type |-> "assistant", role |-> "assistant",
                   content |-> << Block("text"), ToolUse("Write", WriteInput) >>,
                   usage |-> Usage(9, 3, 4), model |-> "opus"]) }

\* The lines of a Codex session with tools.
CodexTurnLines ==
  { CodexLine("event_msg", "user_message", [text |-> "hi"]),
    CodexLine("event_msg", "agent_message", << >>),
    CodexLine("event_msg", "turn_aborted", << >>),
    CodexLine("response_item", "function_call",
              [content |-> << ToolUse("shell_command", BashInput) >>]),
    CodexLine("response_item", "function_call",
              [content |-> << ToolUse("write_file", WriteInput) >>]),
    CodexLine("response_item", "function_call_output", << >>) }

\* The line the agent writes next: its time is later than that of every
\* line before it and its uuid is the number of the line.
TurnLines(alphabet) ==
  IF Len(file) < MaxTurnLines
  THEN { [Stamp(e, file) EXCEPT !.uuid = Len(file) + 1] : e \in alphabet }
  ELSE {}

TurnsInit ==
  /\ adapter \in {"claude", "codex"}
  /\ hook = Payload
  /\ file = << >>
  /\ phase = "idle"
  /\ pos = 1
  /\ st = ParserStart(NULL, NULL, NULL)
  /\ events = << >>
  /\ mapped = << >>
  /\ reports = << >>

\* A loop iteration of parseClaudeTranscript in which a tool_result entry
\* is passed over without a flush.
ClaudeTurnLineNoFlush ==
  /\ adapter = "claude"
  /\ phase = "parse"
  /\ \E e \in TurnLines(ClaudeTurnLines) :
       /\ file' = Append(file, e)
       /\ pos' = pos + 1
       /\ LET r == IF ToolResultOnly(e)
                   THEN PS([st EXCEPT !.lastTimestamp = e.timestamp], events)
                   ELSE claudeEntry(st, events, e)
          IN /\ st' = r.st
             /\ events' = r.events
  /\ UNCHANGED << table, storeVars, adapter, hook, phase, mapped, reports, pureVars >>

\* One iteration of the for loop of parseClaudeTranscript (claude.ts 173-238).
ClaudeTurnLine ==
  /\ adapter = "claude"
  /\ phase = "parse"
  /\ \E e \in TurnLines(ClaudeTurnLines) :
       /\ file' = Append(file, e)
       /\ pos' = pos + 1
       /\ LET r == claudeEntry(st, events, e)
          IN /\ st' = r.st
             /\ events' = r.events
  /\ UNCHANGED << table, storeVars, adapter, hook, phase, mapped, reports, pureVars >>

\* A loop iteration of parseCodexTranscript in which a function_call_output
\* flushes the turn.
CodexTurnLineFlushOnOutput ==
  /\ adapter = "codex"
  /\ phase = "parse"
  /\ \E e \in TurnLines(CodexTurnLines) :
       /\ file' = Append(file, e)
       /\ pos' = pos + 1
       /\ LET r == IF e.ptype = "function_call_output"
                   THEN codexFlushTurn(st, events)
                   ELSE codexEntry(st, events, e)
          IN /\ st' = r.st
             /\ events' = r.events
  /\ UNCHANGED << table, storeVars, adapter, hook, phase, mapped, reports, pureVars >>

\* One iteration of the for loop of parseCodexTranscript (codex.ts 272-357).
CodexTurnLine ==
  /\ adapter = "codex"
  /\ phase = "parse"
  /\ \E e \in TurnLines(CodexTurnLines) :
       /\ file' = Append(file, e)
       /\ pos' = pos + 1
       /\ LET r == codexEntry(st, events, e)
          IN /\ st' = r.st
             /\ events' = r.events
  /\ UNCHANGED << table, storeVars, adapter, hook, phase, mapped, reports, pureVars >>

NextTurns ==
  \/ StartRun
  \/ ClaudeTurnLine
  \/ ClaudeEnd
  \/ CodexTurnLine
  \/ CodexEnd

InitTurns == table = {} /\ StoreInit /\ TurnsInit /\ PureInit

SpecTurns == InitTurns /\ [][NextTurns]_vars

\* ------------------------------------------------------------------------
\* SpecFlush: one parse of a Claude, Codex or Cursor transcript whose
\* entries report token usage; every line is well formed, later than the
\* lines before it, and has a uuid of its own
\* ------------------------------------------------------------------------
\* The lines of a Claude session that reports usage: 8 input tokens with the
\* text, 5 with the tool call, 20 with an entry of thinking alone.
ClaudeUsageLines ==
  { ClaudeMessage([type |-> "user", role |-> "user", text |-> "hi"]),
    ClaudeMessage([type |-> "assistant", role |-> "assistant",
                   content |-> << Block("text") >>, usage |-> Usage(5, 3, 4),
                   model |-> "opus"]),
    ClaudeMessage([type |-> "assistant", role |-> "assistant",
                   content |-> << ToolUse("Bash", BashInput) >>,
                   usage |-> Usage(5, NoNum, 2), model |-> "sonnet"]),
    ClaudeMessage([type |-> "assistant", role |-> "assistant",
                   content |-> << Block("thinking") >>, usage |-> Usage(20, NoNum, 1),
                   model |-> "haiku"]) }

\* The lines of a Codex session that reports usage: totals of 8 and of 5
\* input tokens.
CodexUsageLines ==
  { CodexLine("session_meta", NULL, [sessionId |-> "s1", cwd |-> "/w"]),
    CodexLine("turn_context", NULL, [model |-> "gpt"]),
    CodexLine("event_msg", "user_message", [text |-> "hi"]),
    CodexLine("event_msg", "agent_message", << >>),
    CodexLine("event_msg", "token_count",
              [usage |-> [Usage(5, 3, 2) EXCEPT !.reasoning_output_tokens = 1]]),
    CodexLine("event_msg", "token_count",
              [usage |-> [Usage(5, 0, 1) EXCEPT !.reasoning_output_tokens = 0]]),
    CodexLine("response_item", "function_call",
              [content |-> << ToolUse("shell_command", BashInput) >>]),
    CodexLine("event_msg", "turn_aborted", << >>) }

\* The lines of a Cursor conversation that reports usage; only one kind of
\* line names the conversation.
CursorUsageLines ==
  { CursorMessage("user", [text |-> "hi"]),
    CursorMessage("user", [text |-> "hi", sessionId |-> NULL]),
    CursorMessage("user", [content |-> << Block("tool_result") >>, sessionId |-> NULL]),
    CursorMessage("assistant", [content |-> << Block("text") >>, usage |-> Usage(5, 3, 4),
                                model |-> "sonnet", sessionId |-> NULL]),
    CursorMessage("assistant", [content |-> << ToolUse("Write", WriteInput) >>,
                                usage |-> Usage(5, NoNum, 2), sessionId |-> NULL]),
    CursorMessage("assistant", [content |-> << Block("thinking") >>,
                                usage |-> Usage(20, NoNum, 1), sessionId |-> NULL]) }

\* The line the parser reads next: the line of the file at its position, or
\* past the end a line the agent has written since.
UsageLines(alphabet) ==
  IF pos <= Len(file) THEN {file[pos]}
  ELSE IF Len(file) < MaxFlushLines
  THEN { [Stamp(e, file) EXCEPT !.uuid = Len(file) + 1] : e \in alphabet }
  ELSE {}

FlushInit ==
  /\ adapter \in {"claude", "codex", "cursor"}
  /\ hook \in Hooks(adapter)
  /\ file = << >>
  /\ phase = "idle"
  /\ pos = 1
  /\ st = ParserStart(NULL, NULL, NULL)
  /\ events = << >>
  /\ mapped = << >>
  /\ reports = << >>

\* A loop iteration of parseClaudeTranscript that pushes the prompt of a
\* user entry before it flushes the turn.
ClaudeUsageLinePromptFirst ==
  /\ adapter = "claude"
  /\ phase = "parse"
  /\ \E e \in UsageLines(ClaudeUsageLines) :
       /\ file' = Read(e)
       /\ pos' = pos + 1
       /\ LET r == claudeEntry(st, events, e)
              n == Len(events)
              m == Len(r.events)
          IN /\ st' = r.st
             /\ events' = IF e.type = "user" /\ m > n
                          THEN events \o << r.events[m] >> \o SubSeq(r.events, n + 1, m - 1)
                          ELSE r.events
  /\ UNCHANGED << table, storeVars, adapter, hook, phase, mapped, reports, pureVars >>

\* A loop iteration of parseClaudeTranscript that adds the input tokens of
\* an entry to those of the turn.
ClaudeUsageLineSumming ==
  /\ adapter = "claude"
  /\ phase = "parse"
  /\ \E e \in UsageLines(ClaudeUsageLines) :
       /\ file' = Read(e)
       /\ pos' = pos + 1
       /\ LET r == claudeEntry(st, events, e)
          IN /\ st' = IF e.type = "assistant" /\ HasContent(e) /\ e.usage.present
                      THEN [r.st EXCEPT !.currentTurnInputTokens =
                                           st.currentTurnInputTokens + InputTokens(e.usage)]
                      ELSE r.st
             /\ events' = r.events
  /\ UNCHANGED << table, storeVars, adapter, hook, phase, mapped, reports, pureVars >>

\* One iteration of the for loop of parseClaudeTranscript (claude.ts 173-238).
ClaudeUsageLine ==
  /\ adapter = "claude"
  /\ phase = "parse"
  /\ \E e \in UsageLines(ClaudeUsageLines) :
       /\ file' = Read(e)
       /\ pos' = pos + 1
       /\ LET r == claudeEntry(st, events, e)
          IN /\ st' = r.st
             /\ events' = r.events
  /\ UNCHANGED << table, storeVars, adapter, hook, phase, mapped, reports, pureVars >>

\* One iteration of the for loop of parseCodexTranscript (codex.ts 272-357).
CodexUsageLine ==
  /\ adapter = "codex"
  /\ phase = "parse"
  /\ \E e \in UsageLines(CodexUsageLines) :
       /\ file' = Read(e)
       /\ pos' = pos + 1
       /\ LET r == codexEntry(st, events, e)
          IN /\ st' = r.st
             /\ events' = r.events
  /\ UNCHANGED << table, storeVars, adapter, hook, phase, mapped, reports, pureVars >>

\* One iteration of the for loop of parseCursorTranscript (cursor.ts 197-266).
CursorUsageLine ==
  /\ adapter = "cursor"
  /\ phase = "parse"
  /\ \E e \in UsageLines(CursorUsageLines) :
       /\ file' = Read(e)
       /\ pos' = pos + 1
       /\ LET r == cursorEntry(st, events, e, hook)
          IN /\ st' = r.st
             /\ events' = r.events
  /\ UNCHANGED << table, storeVars, adapter, hook, phase, mapped, reports, pureVars >>

NextFlush ==
  \/ StartRun
  \/ ClaudeUsageLine
  \/ ClaudeEnd
  \/ CodexUsageLine
  \/ CodexEnd
  \/ CursorUsageLine
  \/ CursorEnd

InitFlush == table = {} /\ StoreInit /\ FlushInit /\ PureInit

SpecFlush == InitFlush /\ [][NextFlush]_vars

\* ------------------------------------------------------------------------
\* SpecGemini: one parse of a Gemini session document
\* ------------------------------------------------------------------------
\* The messages of a Gemini document: of every type, with and without a
\* timestamp, with and without a list of tool calls.
GeminiDocMessages ==
  { Entry([type |-> "user", timestamp |-> Later, text |-> "hi"]),
    Entry([type |-> "gemini", timestamp |-> Later, model |-> "gemini-pro",
           usage |-> [Usage(5, NoNum, 2) EXCEPT !.total = 7]]),
    Entry([type |-> "gemini", timestamp |-> Later,
           content |-> << [ToolUse("write_file", WriteInput) EXCEPT !.timestamp = Later],
                          ToolUse("run_shell_command", BashInput) >>]),
    Entry([type |-> "gemini", content |-> << ToolUse("run_shell_command", BashInput) >>]),
    Entry([type |-> "error", timestamp |-> Later]),
    Entry([type |-> "error"]),
    Entry([type |-> "info", timestamp |-> Later]) }

GeminiInit ==
  /\ adapter = "gemini"
  /\ hook \in {NoHook, Payload}
  /\ file = << >>
  /\ phase = "idle"
  /\ pos = 1
  /\ st = ParserStart(NULL, NULL, NULL)
  /\ events = << >>
  /\ mapped = << >>
  /\ reports = << >>

\* An iteration of the for loop that takes an info message for an error.
GeminiDocMessageInfoAsError ==
  /\ adapter = "gemini"
  /\ phase = "parse"
  /\ pos > 1
  /\ Len(file) <= MaxMessages
  /\ \E m \in GeminiDocMessages :
       LET message == Stamp(m, file)
           r == geminiMessage(st, events,
                              IF message.type = "info"
                              THEN [message EXCEPT !.type = "error"] ELSE message)
       IN /\ file' = Append(file, message)
          /\ pos' = pos + 1
          /\ st' = r.st
          /\ events' = r.events
  /\ UNCHANGED << table, storeVars, adapter, hook, phase, mapped, reports, pureVars >>

\* One iteration of the for loop of parseGeminiTranscript (gemini.ts 246-310).
GeminiDocMessage ==
  /\ adapter = "gemini"
  /\ phase = "parse"
  /\ pos > 1
  /\ Len(file) <= MaxMessages
  /\ \E m \in GeminiDocMessages :
       LET message == Stamp(m, file)
           r == geminiMessage(st, events, message)
       IN /\ file' = Append(file, message)
          /\ pos' = pos + 1
          /\ st' = r.st
          /\ events' = r.events
  /\ UNCHANGED << table, storeVars, adapter, hook, phase, mapped, reports, pureVars >>

NextGemini == StartRun \/ GeminiOpen \/ GeminiDocMessage \/ GeminiEnd

InitGemini == table = {} /\ StoreInit /\ GeminiInit /\ PureInit

SpecGemini == InitGemini /\ [][NextGemini]_vars

\* ------------------------------------------------------------------------
\* SpecNormalize: one call of normalizeToolName
\* ------------------------------------------------------------------------
\* Raw names: every key of the three tables, the empty string, names no
\* table has, and names that Object.prototype has.
RawNames ==
  DOMAIN CLAUDE_TOOL_MAP \cup DOMAIN CODEX_TOOL_MAP \cup DOMAIN GEMINI_TOOL_MAP
  \cup {"", "UnknownTool", "bash", "mcp__server__tool"}
  \cup {"constructor", "toString", "__proto__", "hasOwnProperty"}

\* Sources: the AgentSource union of schema.ts and two strings outside it.
Sources == {"claude_code", "codex", "gemini", "opencode", "cursor", "other", "", "claude"}

\* No CLI run and no store call is under way.
IngestIdle ==
  /\ adapter = "claude"
  /\ hook = NoHook
  /\ file = << >>
  /\ phase = "idle"
  /\ pos = 1
  /\ st = ParserStart(NULL, NULL, NULL)
  /\ events = << >>
  /\ mapped = << >>
  /\ reports = << >>

InitNormalize ==
  /\ table = {}
  /\ StoreInit
  /\ IngestIdle
  /\ args \in [rawName : RawNames, source : Sources]
  /\ ret = NULL

NormalizeCall ==
  /\ ret = NULL
  /\ ret' = normalizeToolName(args.rawName, args.source)
  /\ UNCHANGED << table, storeVars, ingestVars, args >>

NextNormalize == NormalizeCall

SpecNormalize == InitNormalize /\ [][NextNormalize]_vars

\* ------------------------------------------------------------------------
\* SpecMap: one call of mapToVibeEvents
\* ------------------------------------------------------------------------
\* The parsed events of the batches: with no working directory, an empty
\* one, one that has a repository and one that has none; with no
\* repository, an empty one, or one the transcript named.
MapContents ==
  { createParsedEvent([timestamp |-> 1, session_id |-> "s1", event_type |-> "prompt",
                       cwd |-> c, git_repo |-> g]) :
      c \in {NULL, "", "/w", "/v"}, g \in {NULL, "event/repo"} }

MapBatches == UNION { [1..n -> MapContents] : n \in 0..MaxMapped }

\* The call has not returned.
NotReturned == [returned |-> FALSE, lookups |-> << >>, events |-> << >>]

InitMap ==
  /\ table = {}
  /\ StoreInit
  /\ IngestIdle
  /\ args \in [events : MapBatches]
  /\ ret = NotReturned

\* The call: the lookups it makes and the events it returns.
MapCall ==
  /\ ~ret.returned
  /\ ret' = [returned |-> TRUE,
             lookups  |-> gitRepoLookups(args.events),
             events   |-> mapToVibeEvents(args.events, "claude_code", Config, 1)]
  /\ UNCHANGED << table, storeVars, ingestVars, args >>

NextMap == MapCall

SpecMap == InitMap /\ [][NextMap]_vars

\* ------------------------------------------------------------------------
\* SpecFileInfo: one call of extractFileInfo of claude.ts
\* ------------------------------------------------------------------------
\* Values of content, old_string and new_string: no string, the empty
\* string, texts of one to MaxTextLines lines, and a line that ends in a
\* newline.
Texts ==
  {NoText, <<"">>, <<"a", "">>} \cup { [i \in 1..n |-> "a"] : n \in 1..MaxTextLines }

FileTools == {"Read", "Write", "Edit", "MultiEdit", "NotebookEdit", "Bash"}

FileInputs ==
  {NoInput} \cup
  { ToolInput([file_path |-> f, content |-> c, old_string |-> o, new_string |-> n]) :
      f \in {NULL, "/w/a"}, c \in Texts, o \in Texts, n \in Texts }

\* The call has not returned.
NoInfoYet == [returned |-> FALSE, info |-> NoFileInfo]

InitFileInfo ==
  /\ table = {}
  /\ StoreInit
  /\ IngestIdle
  /\ args \in [toolName : FileTools, input : FileInputs]
  /\ ret = NoInfoYet

ExtractCall ==
  /\ ~ret.returned
  /\ ret' = [returned |-> TRUE, info |-> claudeExtractFileInfo(args.toolName, args.input)]
  /\ UNCHANGED << table, storeVars, ingestVars, args >>

NextFileInfo == ExtractCall

SpecFileInfo == InitFileInfo /\ [][NextFileInfo]_vars

\* ------------------------------------------------------------------------
\* SpecPayload: one call of a hook-payload parser
\* ------------------------------------------------------------------------
\* The text on standard input, as the sequence of its tokens.
Tokens == {"{", "}", "\"session_id\":\"hs\"", "not valid json"}

Stdins == UNION { [1..n -> Tokens] : n \in 0..MaxTokens }

\* What a call did: it threw, or it returned null, or it returned an object
\* with this session_id.
Threw == [returned |-> TRUE, threw |-> TRUE, null |-> FALSE, session_id |-> NULL]
ReturnedNull == [returned |-> TRUE, threw |-> FALSE, null |-> TRUE, session_id |-> NULL]
ReturnedObject(id) ==
  [returned |-> TRUE, threw |-> FALSE, null |-> FALSE, session_id |-> id]
NotCalled == [returned |-> FALSE, threw |-> FALSE, null |-> FALSE, session_id |-> NULL]

\* JSON.parse: an object for the text of an object, a SyntaxError for any
\* other text the model draws.
JSONparse(text) ==
  IF text = << "{", "}" >> THEN ReturnedObject(NULL)
  ELSE IF text = << "{", "\"session_id\":\"hs\"", "}" >> THEN ReturnedObject("hs")
  ELSE Threw

\* claude.ts 107-109, codex.ts 152-154, cursor.ts 102-104.
parseClaudeHookPayload(stdin) == JSONparse(stdin)
parseCodexHookPayload(stdin) == JSONparse(stdin)
parseCursorHookPayload(stdin) == JSONparse(stdin)

\* gemini.ts 163-169.
parseGeminiHookPayload(stdin) ==
  IF JSONparse(stdin).threw THEN ReturnedNull ELSE JSONparse(stdin)

PayloadSources == {"claude", "codex", "gemini", "cursor"}

parseHookPayload(source, stdin) ==
  IF source = "claude" THEN parseClaudeHookPayload(stdin)
  ELSE IF source = "codex" THEN parseCodexHookPayload(stdin)
  ELSE IF source = "gemini" THEN parseGeminiHookPayload(stdin)
  ELSE parseCursorHookPayload(stdin)

InitPayload ==
  /\ table = {}
  /\ StoreInit
  /\ IngestIdle
  /\ args \in [source : PayloadSources, stdin : Stdins]
  /\ ret = NotCalled

PayloadCall ==
  /\ ~ret.returned
  /\ ret' = parseHookPayload(args.source, args.stdin)
  /\ UNCHANGED << table, storeVars, ingestVars, args >>

NextPayload == PayloadCall

SpecPayload == InitPayload /\ [][NextPayload]_vars

\* ------------------------------------------------------------------------
\* SpecUuid: calls of generateUUIDv7, one after the other
\* ------------------------------------------------------------------------
\* A string of hexadecimal digits is the sequence of their values.
\* Number.prototype.toString(16).
RECURSIVE toString16(_)
toString16(n) ==
  IF n < 16 THEN << n >> ELSE Append(toString16(n \div 16), n % 16)

\* String.prototype.padStart(len, '0').
padStart(str, len) ==
  IF Len(str) >= len THEN str ELSE [i \in 1..(len - Len(str)) |-> 0] \o str

\* String.prototype.slice(from, to) for 0 <= from <= to.
slice(str, from, to) ==
  SubSeq(str, from + 1, IF to < Len(str) THEN to ELSE Len(str))

\* generateUUIDv7 (mapper.ts 61-78) for the value of Date.now() and the
\* ten bytes of crypto.getRandomValues: the five groups that join('-')
\* puts together.  For y below 64, (y & 0x3f) | 0x80 is y + 128.
generateUUIDv7(timestamp, randomBytes) ==
  LET timestampHex == padStart(toString16(timestamp), 12)
      hex(k) == padStart(toString16(randomBytes[k]), 2)
      randomHex == hex(1) \o hex(2) \o hex(3) \o hex(4) \o hex(5)
                   \o hex(6) \o hex(7) \o hex(8) \o hex(9) \o hex(10)
      y == slice(randomHex, 3, 4)[1]
  IN << slice(timestampHex, 0, 8),
        slice(timestampHex, 8, 12),
        << 7 >> \o slice(randomHex, 0, 3),
        toString16((y % 64) + 128) \o slice(randomHex, 4, 7),
        slice(randomHex, 7, 19) >>

\* Values of Date.now(): around the lengths of their hexadecimal text.
Timestamps == {0, 9, 10, 255, 256, 65536, 2147483647}

\* Values of the ten random bytes: the first two vary, the others are
\* all zeros or all ones.
RandomValues ==
  { << a, b, c, c, c, c, c, c, c, c >> : a \in {0, 165, 255}, b \in {0, 90, 255},
                                         c \in {0, 255} }

InitUuid ==
  /\ table = {}
  /\ StoreInit
  /\ IngestIdle
  /\ args = << >>
  /\ ret = << >>

\* One call: the clock does not go back between calls.
GenerateCall ==
  /\ Len(ret) < MaxIds
  /\ \E now \in Timestamps, randomBytes \in RandomValues :
       /\ ret # << >> => now >= ret[Len(ret)].at
       /\ ret' = Append(ret, [at |-> now, id |-> generateUUIDv7(now, randomBytes)])
  /\ UNCHANGED << table, storeVars, ingestVars, args >>

NextUuid == GenerateCall

SpecUuid == InitUuid /\ [][NextUuid]_vars

\* ------------------------------------------------------------------------
\* Properties of the store
\* ------------------------------------------------------------------------
\* The rows of the table that the current call of p brought.
Mine(p) == { r \in table : \E i \in 1..Len(batch[p]) : batch[p][i].id = r.id }

\* The rows without their generated ids.
NoIdSet(rows) == { NoId(r) : r \in rows }

\* C1: a call whose batch has the content keys of a batch committed before
\* (the same events mapped again, with new ids) returns inserted = 0 and
\* skipped = batch size, and its commit leaves the table as it was.
C1_Idempotent ==
  \A p \in Procs :
    (pc[p] = "done" /\ prior[p]) =>
      /\ result[p].inserted = 0
      /\ result[p].skipped = Len(batch[p])
      /\ delta[p] = NoDelta

C1_Witness ==
  \E p \in Procs :
    /\ pc[p] = "done" /\ prior[p] /\ calls[p] = 2
    /\ Len(batch[p]) = 2
    /\ result[p].skipped = 2
    /\ Cardinality(table) = 2

\* C2: no two rows of the table agree on session_id, timestamp, event_type
\* and on the two tool fields, a null tool field counting as an empty one.
SameToolField(a, b) == a = b \/ {a, b} = {NULL, ""}

C2_UniqueContentKey ==
  \A x, y \in table :
    x # y =>
      ~ /\ x.session_id = y.session_id
        /\ x.timestamp = y.timestamp
        /\ x.event_type = y.event_type
        /\ SameToolField(x.tool_name_raw, y.tool_name_raw)
        /\ SameToolField(x.tool_input, y.tool_input)

\* A row with null tool fields is stored and an event with empty tool fields
\* at the same session, time and type was skipped against it.
C2_Witness ==
  \E p \in Procs, r \in table :
    /\ pc[p] = "done" /\ ~prior[p]
    /\ \E i \in 1..Len(batch[p]) :
         /\ log[p][i].changes = 0
         /\ batch[p][i].tool_name_raw = "" /\ r.tool_name_raw = NULL
         /\ batch[p][i].session_id = r.session_id
         /\ batch[p][i].timestamp = r.timestamp
         /\ batch[p][i].event_type = r.event_type

\* The two invocations have both committed, whatever came before.
BothDone == \A p \in Procs : pc[p] = "done"

\* The table after the two batches are committed one after the other.
InOrder(first, second) ==
  insertEvents(insertEvents({}, batch[first]).rows, batch[second]).rows

\* C5 as stated: whichever transaction commits first, the table holds the
\* same rows in every column but the id.
C5_CommuteAllColumns ==
  BothDone =>
    /\ NoIdSet(table) = NoIdSet(InOrder("p1", "p2"))
    /\ NoIdSet(table) = NoIdSet(InOrder("p2", "p1"))

\* C5 amended: the content keys of the table are the same whichever
\* transaction commits first and however often a batch is submitted again;
\* the rows are those of one of the two serial orders.
C5_CommuteKeys ==
  BothDone =>
    /\ KeysOf(table) = KeysOf(InOrder("p1", "p2"))
    /\ KeysOf(table) = KeysOf(InOrder("p2", "p1"))
    /\ NoIdSet(table) \in {NoIdSet(InOrder("p1", "p2")), NoIdSet(InOrder("p2", "p1"))}

\* Two overlapping batches, p2's committed first, and one submitted again.
C5_Witness ==
  /\ BothDone
  /\ calls["p1"] + calls["p2"] = 3
  /\ KeysOf(RowsOfBatch("p1")) \cap KeysOf(RowsOfBatch("p2")) # {}
  /\ KeysOf(RowsOfBatch("p1")) # KeysOf(RowsOfBatch("p2"))
  /\ NoIdSet(table) = NoIdSet(InOrder("p2", "p1"))
  /\ NoIdSet(table) # NoIdSet(InOrder("p1", "p2"))

\* C6: a reader of the table sees none of the rows a call adds, or, once the
\* call has returned, all of them.
C6_Atomic ==
  \A p \in Procs :
    \/ Mine(p) = {}
    \/ /\ pc[p] = "done"
       /\ Cardinality(Mine(p)) = result[p].inserted

\* A transaction that has written one of its two rows and not committed.
C6_Witness ==
  \E p \in Procs :
    /\ pc[p] = "run" /\ lock = p
    /\ idx[p] = 2 /\ Len(batch[p]) = 2
    /\ inserted[p] = 1
    /\ Changes(tx[p], batch[p][2]) = 1

\* C7: no step changes or removes a row of the table, and an event that
\* conflicts with a row is dropped while the loop goes on.
C7_WriteOnce ==
  [][ /\ table \subseteq table'
      /\ \A p \in Procs :
           (Len(log'[p]) = Len(log[p]) + 1 /\ log'[p][Len(log'[p])].changes = 0) =>
             /\ Seen(p)' = Seen(p)
             /\ pc'[p] = "run"
             /\ idx'[p] = idx[p] + 1 ]_vars

\* An event met a stored row of the same key and another turn_index, was
\* dropped, and a later event of the batch was inserted.
C7_Witness ==
  \E p \in Procs, r \in table :
    /\ pc[p] = "done" /\ Len(batch[p]) = 2
    /\ log[p][1].changes = 0 /\ log[p][2].changes = 1
    /\ DedupKey(r) = DedupKey(batch[p][1])
    /\ r.turn_index # batch[p][1].turn_index
    /\ r.id # batch[p][1].id

\* C9: when insertEvents fails at its k-th event the table is as before the
\* call, none of the batch is stored and no counts are returned.
C9_Rollback ==
  [][ \A p \in Procs :
        pc'[p] = "failed" =>
          /\ pc[p] = "run" => table' = table
          /\ Mine(p)' = {}
          /\ result'[p] = NoResult ]_vars

\* The error came at the second event, after the first one had been written.
C9_Witness ==
  \E p \in Procs :
    /\ pc[p] = "failed"
    /\ idx[p] = 2
    /\ log[p][1].changes = 1

\* ------------------------------------------------------------------------
\* Properties of the ingestion pipeline
\* ------------------------------------------------------------------------
OfType(rows, type) == { r \in rows : r.event_type = type }

TurnEnds(evs) == SelectSeq(evs, LAMBDA e : e.event_type = "turn_end")

LastReport == reports[Len(reports)]

\* C3: for every adapter, a transcript whose parse yields N events reports
\* inserted = N, skipped = 0 on an empty store, and inserted = 0, skipped = N
\* when the unchanged transcript is run again.
C3_FirstAllThenNone ==
  \A i \in 1..Len(reports) :
    LET r == reports[i]
        N == Len(r.parsed)
    IN r.ok =>
         /\ r.atStart = {} => r.inserted = N /\ r.skipped = 0
         /\ (i > 1 /\ reports[i - 1].ok /\ reports[i - 1].lines = r.lines)
              => r.inserted = 0 /\ r.skipped = N

\* C4: a snapshot of the transcript was ingested, then the transcript as it
\* is now: the store holds the content keys a single ingestion of the
\* transcript gives, one session_end for a session, one turn_end for a turn,
\* and no more tool_call rows than the transcript has invocations.
C4_ResumeAddsOnlyNew ==
  (phase = "idle" /\ Len(reports) = 2 /\ reports[1].ok /\ reports[2].ok) =>
    /\ KeysOf(table) = KeysOf(reports[2].alone)
    /\ \A a, b \in OfType(table, "session_end") : a.session_id = b.session_id => a = b
    /\ \A a, b \in OfType(table, "turn_end") :
         (a.session_id = b.session_id /\ a.turn_index = b.turn_index) => a = b
    /\ Cardinality(OfType(table, "tool_call"))
         <= Len(SelectSeq(reports[2].parsed, LAMBDA e : e.event_type = "tool_call"))

\* C8: inserted + skipped is the size of the batch, inserted is the number
\* of rows the call added, and skipped is the number of events whose content
\* key was in the table before or came earlier in the batch.
C8_SkippedAreDuplicates ==
  (phase = "idle" /\ reports # << >> /\ LastReport.ok) =>
    LET r == LastReport
        n == Len(r.batch)
        dup(i) == \/ DedupKey(r.batch[i]) \in KeysOf(r.atStart)
                  \/ \E j \in 1..(i - 1) : DedupKey(r.batch[j]) = DedupKey(r.batch[i])
    IN /\ r.inserted + r.skipped = n
       /\ r.inserted = Cardinality(table \ r.atStart)
       /\ r.skipped = Cardinality({ i \in 1..n : dup(i) })

C11_ToolCallsFollowTurnEnd ==
  \A i \in 1..Len(events) :
    events[i].event_type = "tool_call" =>
      LET before == { j \in 1..(i - 1) : events[j].event_type = "turn_end" }
      IN /\ before # {}
         /\ events[i].turn_index # NoNum
         /\ \E j \in before :
              /\ \A k \in before : k <= j
              /\ events[i].turn_index = events[j].turn_index

\* A parse with tool calls in two turns.
C11_Witness ==
  /\ phase = "parsed"
  /\ \E i, j \in 1..Len(events) :
       /\ events[i].event_type = "tool_call" /\ events[i].turn_index = 1
       /\ events[j].event_type = "tool_call" /\ events[j].turn_index = 2

Prompts(evs) == SelectSeq(evs, LAMBDA e : e.event_type = "prompt")

\* C12: in every adapter, reading a user entry that holds only tool_result
\* blocks adds no prompt event to the output.
C12_ToolResultIsNoPrompt ==
  [][(phase = "parse" /\ pos' = pos + 1 /\ ToolResultOnly(file'[pos]))
       => Len(Prompts(events')) = Len(Prompts(events))]_vars

\* The assistant entries of the transcript that the Claude parser looks at.
AssistantEntries ==
  SelectSeq(file, LAMBDA e : /\ e.valid /\ e.type = "assistant" /\ e.role = "assistant"
                             /\ e.sessionId # NULL /\ e.timestamp # NoTs)

RECURSIVE MaxInputTokens(_)
MaxInputTokens(chunks) ==
  IF chunks = << >> THEN 0
  ELSE Max(IF chunks[1].usage.present THEN InputTokens(chunks[1].usage) ELSE 0,
           MaxInputTokens(Tail(chunks)))

\* The transcript is one turn whose assistant entries are the chunks of one
\* message: they share the uuid, and no user entry comes after the first.
OneMessageTurn ==
  /\ AssistantEntries # << >>
  /\ \A i \in 1..Len(AssistantEntries) :
       /\ AssistantEntries[i].uuid = AssistantEntries[1].uuid
       /\ HasContent(AssistantEntries[i])
  /\ \A i, j \in 1..Len(file) :
       (file[i].type = "assistant" /\ i < j) => file[j].type = "assistant"
  /\ \A i \in 1..Len(file) : file[i].valid

\* C13: the chunks of one message give one turn_end whose prompt_tokens is
\* the largest of the input-token totals the chunks report.
C13_ChunksGiveMax ==
  (adapter = "claude" /\ phase = "parsed" /\ OneMessageTurn) =>
    /\ Len(TurnEnds(events)) = 1
    /\ TurnEnds(events)[1].prompt_tokens = OrUndefined(MaxInputTokens(AssistantEntries))

\* The adapters that read a transcript line by line.
LineAdapters == {"claude", "subagent", "codex", "cursor"}

\* The lines of the transcript that are entries with a timestamp.
Observed == SelectSeq(file, LAMBDA e : e.valid /\ e.timestamp # NoTs)

\* C16: a line-oriented adapter that has seen an entry with a timestamp
\* emits session_start first, at the first timestamp seen, and session_end
\* last, at the last timestamp seen, with every other event between them.
C16_Bracketed ==
  (phase = "parsed" /\ adapter \in LineAdapters /\ Observed # << >>) =>
    /\ Len(events) >= 2
    /\ events[1].event_type = "session_start"
    /\ events[1].timestamp = Observed[1].timestamp
    /\ events[Len(events)].event_type = "session_end"
    /\ events[Len(events)].timestamp = Observed[Len(Observed)].timestamp
    /\ \A i \in 2..(Len(events) - 1) :
         events[i].event_type \notin {"session_start", "session_end"}

\* C17: a line-oriented adapter passes over a line that is not JSON and
\* goes on: the run does not fail at it, and the output is the output for
\* the transcript without such lines.
C17_MalformedLineSkipped ==
  /\ [](  (adapter \in LineAdapters /\ phase = "parsed")
            => events = parseTranscript(adapter, hook,
                                        SelectSeq(file, LAMBDA e : e.valid)))
  /\ [][(adapter \in LineAdapters /\ phase = "parse" /\ pos' = pos + 1
           /\ ~file'[pos].valid)
          => phase' = "parse"]_vars

\* C18: a run that fails leaves the table as it was and reports no counts;
\* the table is written and counts are reported only by the one insertEvents
\* call that ends a run that did not fail.
C18_FailBeforeStore ==
  [][/\ phase' = "failed" =>
          /\ table' = table
          /\ reports' = Append(reports, LastReport')
          /\ ~LastReport'.ok
          /\ LastReport'.inserted = NoNum /\ LastReport'.skipped = NoNum
     /\ (table' # table \/ (reports' # reports /\ LastReport'.ok)) =>
          /\ phase = "mapped" /\ phase' = "idle"
          /\ table' = insertEvents(table, mapped).rows
          /\ reports' = Append(reports, LastReport')
          /\ LastReport'.inserted = insertEvents(table, mapped).inserted
          /\ LastReport'.skipped = insertEvents(table, mapped).skipped]_vars

\* The transcript was ingested, and cannot be read at the next run.
C18_Witness ==
  /\ Len(reports) = 2
  /\ reports[1].ok /\ ~reports[2].ok
  /\ phase = "failed"
  /\ pos = 1
  /\ table # {}

\* The subagent types of the Task invocations of the lines, in their order.
RECURSIVE TaskTypes(_)
TaskTypes(lines) ==
  IF lines = << >> THEN << >>
  ELSE LET tasks == SelectSeq(lines[1].content,
                      LAMBDA b : b.type = "tool_use" /\ b.name = "Task")
       IN [i \in 1..Len(tasks) |-> tasks[i].input.subagent_type]
            \o TaskTypes(Tail(lines))

\* C19: with a parent transcript that can be read, the events of a subagent
\* carry the subagent type of the Task invocation that started this agent.
C19_TypeOfOwnInvocation ==
  (adapter = "subagent" /\ phase = "parsed" /\ hook.parentReadable
     /\ \A k \in 1..Len(hook.parent) : hook.parent[k].valid) =>
    \A i \in 1..Len(events) :
      events[i].agent_type = TaskTypes(hook.parent)[hook.task]

\* The events with the agent type taken out.
EraseType(evs) == [i \in 1..Len(evs) |-> [evs[i] EXCEPT !.agent_type = NULL]]

\* The parent transcript is missing, unreadable or has a line that is not
\* JSON.
ParentBroken ==
  \/ ~hook.parentReadable
  \/ \E k \in 1..Len(hook.parent) : ~hook.parent[k].valid

\* The events of the subagent transcript with the parent transcript at its
\* best, the agent type taken out.
WithGoodParent ==
  EraseType(parseTranscript("subagent",
                            [hook EXCEPT !.parentReadable = TRUE, !.parent = ParentLines],
                            file))

\* The lines of the parent before its first line that is not JSON.
RECURSIVE WellFormedPrefix(_)
WellFormedPrefix(lines) ==
  IF lines = << >> \/ ~lines[1].valid THEN << >>
  ELSE << lines[1] >> \o WellFormedPrefix(Tail(lines))

\* C20 as claimed: with a broken parent transcript the subagent parse gives
\* the events it gives with a readable one, each with the agent_id and none
\* with an agent_type.
C20_BrokenParentNoType ==
  (adapter = "subagent" /\ phase = "parsed" /\ ParentBroken) =>
    /\ EraseType(events) = WithGoodParent
    /\ \A i \in 1..Len(events) :
         events[i].agent_id = hook.agent_id /\ events[i].agent_type = NULL

\* C20: with a broken parent transcript the subagent parse gives the events
\* it gives with a readable one, each with the agent_id; the agent_type is
\* absent unless a Task invocation comes before the first malformed line of
\* a parent that could be read, and then it is the type of the first such.
C20_FailSoft ==
  (adapter = "subagent" /\ phase = "parsed" /\ ParentBroken) =>
    LET types == IF hook.parentReadable
                 THEN TaskTypes(WellFormedPrefix(hook.parent)) ELSE << >>
    IN /\ EraseType(events) = WithGoodParent
       /\ \A i \in 1..Len(events) :
            /\ events[i].agent_id = hook.agent_id
            /\ events[i].agent_type = IF types = << >> THEN NULL ELSE types[1]

\* A subagent transcript parsed although the parent has a malformed line
\* before its Task invocation: events without agent_type.
C20_Witness ==
  /\ adapter = "subagent"
  /\ phase = "parsed"
  /\ hook.parentReadable
  /\ ~hook.parent[1].valid
  /\ Len(TurnEnds(events)) >= 1
  /\ \A i \in 1..Len(events) : events[i].agent_type = NULL

\* ------------------------------------------------------------------------
\* Properties of the turn cadence
\* ------------------------------------------------------------------------
\* The assistant entries of a Claude transcript between one user entry and
\* the next, for every such stretch that has any.
RECURSIVE ClaudeStretches(_, _, _)
ClaudeStretches(lines, cur, acc) ==
  LET closed == IF cur = << >> THEN acc ELSE Append(acc, cur)
  IN IF lines = << >> THEN closed
     ELSE IF lines[1].type = "user" THEN ClaudeStretches(Tail(lines), << >>, closed)
     ELSE ClaudeStretches(Tail(lines), Append(cur, lines[1]), acc)

\* The agent_message and function_call entries of a Codex transcript between
\* one user_message or turn_aborted and the next, for every such stretch
\* that has any; a function_call_output ends nothing.
RECURSIVE CodexStretches(_, _, _)
CodexStretches(lines, cur, acc) ==
  LET closed == IF cur = << >> THEN acc ELSE Append(acc, cur)
  IN IF lines = << >> THEN closed
     ELSE IF lines[1].ptype \in {"user_message", "turn_aborted"}
       THEN CodexStretches(Tail(lines), << >>, closed)
     ELSE IF lines[1].ptype \in {"agent_message", "function_call"}
       THEN CodexStretches(Tail(lines), Append(cur, lines[1]), acc)
     ELSE CodexStretches(Tail(lines), cur, acc)

\* The tool invocations of the entries of a stretch, in their order.
RECURSIVE ToolsOf(_)
ToolsOf(entries) ==
  IF entries = << >> THEN << >>
  ELSE ToolUses(entries[1]) \o ToolsOf(Tail(entries))

\* The output has one turn_end for each stretch, numbered in their order,
\* each followed by the tool calls of its stretch and by no other.
TurnsAre(stretches) ==
  /\ Len(TurnEnds(events)) = Len(stretches)
  /\ \A i \in 1..Len(events) :
       events[i].event_type = "turn_end" =>
         /\ events[i].turn_index \in 1..Len(stretches)
         /\ LET k == events[i].turn_index
                tools == ToolsOf(stretches[k])
            IN /\ i + Len(tools) < Len(events)
               /\ \A m \in 1..Len(tools) :
                    /\ events[i + m].event_type = "tool_call"
                    /\ events[i + m].turn_index = k
                    /\ events[i + m].tool_name_raw = tools[m].name
                    /\ events[i + m].tool_input = JSONstringify(tools[m].input)
               /\ events[i + Len(tools) + 1].event_type # "tool_call"

\* C14: the Claude adapter closes a turn at every user entry, tool_result
\* entries included: each stretch of assistant entries between user entries
\* gives one turn_end, followed by the tool calls of that stretch only and
\* carrying the input tokens of that stretch.
C14_ClaudeTurnPerRoundTrip ==
  (adapter = "claude" /\ phase = "parsed") =>
    LET stretches == ClaudeStretches(file, << >>, << >>)
    IN /\ TurnsAre(stretches)
       /\ \A k \in 1..Len(stretches) :
            TurnEnds(events)[k].prompt_tokens = OrUndefined(MaxInputTokens(stretches[k]))

\* A prompt, then two tool invocations each answered by a tool_result.
C14_Witness ==
  /\ adapter = "claude"
  /\ phase = "parsed"
  /\ Len(file) = 5
  /\ file[1].type = "user" /\ ~ToolResultOnly(file[1])
  /\ file[2].type = "assistant" /\ ToolResultOnly(file[3])
  /\ file[4].type = "assistant" /\ ToolResultOnly(file[5])
  /\ Len(TurnEnds(events)) = 2
  /\ TurnEnds(events)[1].prompt_tokens # TurnEnds(events)[2].prompt_tokens

TableOf(source) ==
  IF source = "claude_code" THEN CLAUDE_TOOL_MAP
  ELSE IF source = "codex" THEN CODEX_TOOL_MAP
  ELSE IF source = "gemini" THEN GEMINI_TOOL_MAP
  ELSE << >>

\* The canonical name a table assigns: its own entry, other without one.
Canonical(rawName, source) ==
  IF rawName \in DOMAIN TableOf(source) THEN TableOf(source)[rawName] ELSE "other"

\* C21: normalizeToolName is total: for every raw name and every source the
\* call returns a member of the ToolName vocabulary, the table entry when
\* the raw name is a key of the source's table and other in every other
\* case, names that are not own keys of the table and unsupported sources
\* included.
C21_NormalizeTotal ==
  ret # NULL => /\ ret \in ToolName
                /\ ret = Canonical(args.rawName, args.source)


\* ------------------------------------------------------------------------
\* Properties of the mapper
\* ------------------------------------------------------------------------
\* The fields of a parsed event that the mapper hands on under their name.
CopiedFields ==
  {"timestamp", "session_id", "event_type",
   "turn_index", "model", "prompt_tokens", "completion_tokens", "total_tokens",
   "tool_name", "tool_name_raw", "tool_input",
   "file_path", "file_action", "file_lines_added", "file_lines_removed"}

\* C22: mapToVibeEvents drops and reorders nothing: for a parsed transcript
\* with n events it returns n records, the i-th of which has the timestamp,
\* session_id, event_type, turn and tool fields of the i-th event, the source
\* of the transcript, and user_id, team_id and machine_id of the configuration.
C22_MapKeepsAll ==
  phase = "mapped" =>
    /\ Len(mapped) = Len(events)
    /\ \A i \in 1..Len(mapped) :
         /\ \A f \in CopiedFields : mapped[i][f] = events[i][f]
         /\ mapped[i].source = Source(adapter)
         /\ mapped[i].user_id = Config.user_id
         /\ mapped[i].team_id = Config.team_id
         /\ mapped[i].machine_id = Config.machine_id

\* A transcript with a prompt, a turn and a tool call has been mapped, and
\* not every event of it carries a working directory.
C22_Witness ==
  /\ phase = "mapped"
  /\ Len(mapped) >= 4
  /\ \E i \in 1..Len(events) : events[i].event_type = "tool_call"
  /\ \E i \in 1..Len(events) : events[i].event_type = "prompt"
  /\ \E i \in 1..Len(events) : events[i].cwd = NULL


\* ------------------------------------------------------------------------
\* Properties of the Gemini adapter
\* ------------------------------------------------------------------------
\* The messages of the document that the loop has been through.
Messages == IF file = << >> \/ ~file[1].valid THEN << >> ELSE Tail(file)

MessagesOf(type) == SelectSeq(Messages, LAMBDA m : m.type = type)

Timed(msgs) == SelectSeq(msgs, LAMBDA m : m.timestamp # NoTs)

EventsOf(type) == SelectSeq(events, LAMBDA e : e.event_type = type)

\* One turn_end for each gemini message that has a timestamp, one tool_call
\* for each entry of its toolCalls in their order, no event for an info
\* message.
GeminiTurns ==
  LET turns == Timed(MessagesOf("gemini"))
  IN /\ Len(EventsOf("turn_end")) = Len(turns)
     /\ \A e \in 1..Len(events) :
          events[e].event_type = "tool_call" => events[e].turn_index \in 1..Len(turns)
     /\ \A k \in 1..Len(turns) :
          LET made == SelectSeq(events, LAMBDA e : /\ e.event_type = "tool_call"
                                                    /\ e.turn_index = k)
          IN /\ Len(made) = Len(turns[k].content)
             /\ \A i \in 1..Len(made) : made[i].tool_name_raw = turns[k].content[i].name
     /\ \A e \in 1..Len(events) :
          events[e].event_type \in
            {"session_start", "session_end", "prompt", "turn_end", "tool_call", "error"}
     /\ Len(EventsOf("prompt")) = Len(Timed(MessagesOf("user")))

\* C23 as stated: as below, with one error event for each error message,
\* whether it has a timestamp or not.
C23_GeminiPerMessage ==
  phase \in {"parse", "parsed"} =>
    /\ GeminiTurns
    /\ Len(EventsOf("error")) = Len(MessagesOf("error"))

\* C23: in the Gemini adapter the number of turn_end events is the number
\* of gemini messages that have a timestamp, each of them yields one
\* tool_call per entry of its toolCalls in list order, each error message
\* that has a timestamp yields one error event, an error message without a
\* timestamp yields none, and info messages yield no event.
C23_GeminiPerTimedMessage ==
  phase \in {"parse", "parsed"} =>
    /\ GeminiTurns
    /\ Len(EventsOf("error")) = Len(Timed(MessagesOf("error")))

\* A document with a turn of two tool calls, an error message with a
\* timestamp and one without has been parsed.
C23_Witness ==
  /\ phase = "parsed"
  /\ \E i \in 1..Len(Messages) : Messages[i].type = "gemini" /\ Len(Messages[i].content) = 2
                                   /\ Messages[i].timestamp # NoTs
  /\ \E i \in 1..Len(Messages) : Messages[i].type = "error" /\ Messages[i].timestamp = NoTs
  /\ \E i \in 1..Len(Messages) : Messages[i].type = "error" /\ Messages[i].timestamp # NoTs
  /\ Len(EventsOf("error")) = 1


\* ------------------------------------------------------------------------
\* Properties of the token accounting
\* ------------------------------------------------------------------------
\* C24: no turn_end produced for the Claude source, by the main parser or
\* by the subagent parser, carries completion_tokens or total_tokens: only
\* prompt_tokens is reported.
C24_ClaudeNoCompletionTokens ==
  adapter \in {"claude", "subagent"} =>
    \A i \in 1..Len(events) :
      events[i].event_type = "turn_end" =>
        /\ events[i].completion_tokens = NoNum
        /\ events[i].total_tokens = NoNum


\* ------------------------------------------------------------------------
\* Properties of the stored tool calls
\* ------------------------------------------------------------------------
\* The canonical name the lookup table of a stored source assigns.
CanonicalOf(row) ==
  IF row.source = "cursor"
  THEN (IF row.tool_name_raw \in DOMAIN CURSOR_TOOL_MAP
        THEN CURSOR_TOOL_MAP[row.tool_name_raw] ELSE "other")
  ELSE Canonical(row.tool_name_raw, row.source)

\* C25: every stored tool_call event that has a tool_name_raw has a
\* tool_name too, the canonical name that the lookup table of its source
\* assigns to the raw name, other when the table has none.
C25_StoredToolNameCanonical ==
  \A row \in table :
    (row.event_type = "tool_call" /\ row.tool_name_raw # NULL) =>
      /\ row.tool_name # NULL
      /\ row.tool_name = CanonicalOf(row)


\* ------------------------------------------------------------------------
\* Properties of the flushes
\* ------------------------------------------------------------------------
\* The lines the running parse has been through.
Done == SubSeq(file, 1, pos - 1)

\* A user-authored message.
UserMessage(e) ==
  IF adapter = "codex" THEN e.ptype = "user_message"
  ELSE e.type = "user" /\ e.role = "user"

\* An entry at which the parser calls flushTurn.
FlushTrigger(e) == UserMessage(e) \/ (adapter = "codex" /\ e.ptype = "turn_aborted")

\* The lines after the last flush trigger.
RECURSIVE SinceFlush(_)
SinceFlush(lines) ==
  IF lines = << >> \/ FlushTrigger(lines[Len(lines)]) THEN << >>
  ELSE Append(SinceFlush(SubSeq(lines, 1, Len(lines) - 1)), lines[Len(lines)])

\* Assistant activity: an assistant entry with text or a tool call; an
\* agent message or a function call of Codex.
Activity(e) ==
  IF adapter = "codex"
  THEN e.ptype \in {"agent_message", "function_call"}
       \/ (e.type = "response_item" /\ e.ptype = "message" /\ e.role = "assistant")
  ELSE e.type = "assistant" /\ e.role = "assistant" /\ HasContent(e)

\* A token-bearing entry that the parser does not skip, and its total of
\* input tokens.
TokenBearing(e) ==
  IF adapter = "codex" THEN e.ptype = "token_count" /\ e.usage.present
  ELSE Activity(e) /\ e.usage.present

InputTotal(e) ==
  IF adapter = "codex" THEN e.usage.input_tokens + e.usage.cache_read_input_tokens
  ELSE InputTokens(e.usage)

RECURSIVE MaxInputTotal(_)
MaxInputTotal(lines) ==
  IF lines = << >> THEN 0
  ELSE Max(IF TokenBearing(lines[1]) THEN InputTotal(lines[1]) ELSE 0,
           MaxInputTotal(Tail(lines)))

\* The model the entries of a stretch give its turn.
ModelOf(lines) ==
  LET active == SelectSeq(lines, LAMBDA e : Activity(e) /\ e.model # NULL)
      contexts == SelectSeq(lines, LAMBDA e : e.type = "turn_context")
  IN IF adapter = "codex"
     THEN (IF contexts = << >> THEN NULL ELSE contexts[Len(contexts)].model)
     ELSE IF adapter = "cursor" /\ hook.model # NULL THEN hook.model
     ELSE IF active = << >> THEN NULL ELSE active[1].model

\* The tool calls of the entries of a stretch.
RECURSIVE CallsOf(_)
CallsOf(lines) ==
  IF lines = << >> THEN << >>
  ELSE (IF Activity(lines[1]) THEN ToolUses(lines[1]) ELSE << >>) \o CallsOf(Tail(lines))

\* The events of the turn that the step emits, if it emits one.
Emitted(type) ==
  SelectSeq(events', LAMBDA e : e.event_type = type /\ e.turn_index = st.turnIndex + 1)

\* The accumulator of the turn is as at the start of the parse.
AccumulatorEmpty(s) ==
  /\ s.currentTurnInputTokens = 0
  /\ s.currentTurnOutputTokens = 0
  /\ s.currentTurnTimestamp = NoTs
  /\ s.currentTurnToolCalls = << >>
  /\ s.currentTurnModel = (IF adapter = "cursor" THEN hook.model ELSE NULL)
  /\ ~s.hasPendingAssistantMessage

\* C27: in the Claude, Codex and Cursor adapters the prompt_tokens of each
\* turn_end is the maximum, not the sum, of the input-token totals of the
\* token-bearing entries that the parser went through between the previous
\* flush and the flush that emits it, absent when that maximum is 0; model
\* and tool calls of the turn come from the same entries, and after every
\* flush the accumulator is empty.
C27_MaxSinceLastFlush ==
  [][phase = "parse" =>
       /\ st'.turnIndex # st.turnIndex =>
            /\ st'.turnIndex = st.turnIndex + 1
            /\ Len(Emitted("turn_end")) = 1
            /\ Emitted("turn_end")[1].prompt_tokens
                 = OrUndefined(MaxInputTotal(SinceFlush(Done)))
            /\ Emitted("turn_end")[1].model = ModelOf(SinceFlush(Done))
            /\ Len(Emitted("tool_call")) = Len(CallsOf(SinceFlush(Done)))
            /\ \A i \in 1..Len(Emitted("tool_call")) :
                 Emitted("tool_call")[i].tool_name_raw = CallsOf(SinceFlush(Done))[i].name
       /\ (phase' = "parsed" \/ (pos' = pos + 1 /\ FlushTrigger(file'[pos])))
            => AccumulatorEmpty(st')]_vars

\* A turn was emitted whose entries report 8 and 5 input tokens, after a
\* turn that reported more than the turn after it.
C27_Witness ==
  /\ phase = "parsed"
  /\ \E i, j \in 1..Len(events) :
       /\ i < j
       /\ events[i].event_type = "turn_end" /\ events[i].prompt_tokens = 8
       /\ events[j].event_type = "turn_end" /\ events[j].prompt_tokens = 5
  /\ \E i, j \in 1..Len(file) :
       /\ j = i + 1
       /\ TokenBearing(file[i]) /\ InputTotal(file[i]) = 5
       /\ TokenBearing(file[j]) /\ InputTotal(file[j]) = 8


\* The parser reads a user-authored message.
PromptStep == phase = "parse" /\ pos' = pos + 1 /\ UserMessage(file'[pos])

\* The entries since the last flush hold assistant activity.
TurnPending == \E i \in 1..Len(SinceFlush(Done)) : Activity(SinceFlush(Done)[i])

\* The step adds a prompt event to the output.
PromptEmitted == Len(Prompts(events')) > Len(Prompts(events))

\* The step appends the turn_end of the pending turn, then its tool calls,
\* then at most the prompt, and nothing else.
FlushedBeforePrompt ==
  LET made == CallsOf(SinceFlush(Done))
      n == Len(events)
      rest == SubSeq(events', n + 2 + Len(made), Len(events'))
  IN /\ Len(events') >= n + 1 + Len(made)
     /\ SubSeq(events', 1, n) = events
     /\ events'[n + 1].event_type = "turn_end"
     /\ \A m \in 1..Len(made) :
          /\ events'[n + 1 + m].event_type = "tool_call"
          /\ events'[n + 1 + m].tool_name_raw = made[m].name
     /\ Len(rest) <= 1
     /\ \A k \in 1..Len(rest) : rest[k].event_type = "prompt"

\* No turn_end or tool_call that follows a prompt in the output is as old
\* as the prompt: none was accumulated from entries before it.
NothingOldAfterPrompt ==
  \A i, j \in 1..Len(events) :
    (i < j /\ events[i].event_type = "prompt"
           /\ events[j].event_type \in {"turn_end", "tool_call"})
      => events[j].timestamp > events[i].timestamp

Body ==
  IF events # << >> /\ events[Len(events)].event_type = "session_end"
  THEN SubSeq(events, 1, Len(events) - 1) ELSE events

\* The assistant activity at the end of the transcript, after the last
\* flush trigger.
LastActivity == SelectSeq(SinceFlush(file), Activity)

\* The events at the back of the output, before session_end, are the
\* turn_end of the activity the transcript ends with and its tool calls.
EndsWithLastTurn ==
  LET made == CallsOf(SinceFlush(file))
      n == Len(Body) - Len(made)
  IN /\ n >= 1
     /\ Body[n].event_type = "turn_end"
     /\ Body[n].timestamp = LastActivity[Len(LastActivity)].timestamp
     /\ \A m \in 1..Len(made) :
          /\ Body[n + m].event_type = "tool_call"
          /\ Body[n + m].turn_index = Body[n].turn_index
          /\ Body[n + m].tool_name_raw = made[m].name

\* C29 as stated: a transcript that ends with assistant activity not
\* followed by a flush trigger yields a turn_end and its tool calls for that
\* activity, emitted before session_end, and every parse ends with an empty
\* accumulator.
C29_FlushAtEnd ==
  phase = "parsed" =>
    /\ AccumulatorEmpty(st)
    /\ LastActivity # << >> => EndsWithLastTurn

\* C29: when the entries are exhausted the pending turn is flushed: every
\* parse ends with an empty accumulator, and a transcript whose session id
\* is known and that ends with assistant activity not followed by a flush
\* trigger yields a turn_end and its tool calls for that activity, emitted
\* before session_end.
C29_FlushAtEndOfSession ==
  phase = "parsed" =>
    /\ AccumulatorEmpty(st)
    /\ (LastActivity # << >> /\ st.sessionId # NULL) => EndsWithLastTurn

\* A transcript that ends with a tool call after a prompt has been parsed.
C29_Witness ==
  /\ phase = "parsed"
  /\ Len(file) >= 2
  /\ UserMessage(file[Len(file) - 1])
  /\ Activity(file[Len(file)])
  /\ CallsOf(SinceFlush(file)) # << >>
  /\ st.sessionId # NULL
  /\ \E i \in 1..Len(events) : events[i].event_type = "tool_call"


\* ------------------------------------------------------------------------
\* Properties of entries without content
\* ------------------------------------------------------------------------
\* An assistant entry with neither text nor a tool call.
ContentLess(e) ==
  e.valid /\ e.type = "assistant" /\ e.role = "assistant" /\ ~HasContent(e)

\* The turn_end and tool_call events of an output.
TurnEvents(evs) == SelectSeq(evs, LAMBDA e : e.event_type \in {"turn_end", "tool_call"})

\* C30: an assistant entry without emittable content neither starts nor
\* closes a turn: the turn_end and tool_call events of the output of the
\* Claude parser are those of the transcript with every such entry removed,
\* also when a later entry with content has the uuid of one of them.
C30_ContentLessIsNoEntry ==
  (adapter = "claude" /\ phase = "parsed" /\ \A i \in 1..Len(file) : file[i].valid) =>
    TurnEvents(events)
      = TurnEvents(parseTranscript("claude", hook,
                                   SelectSeq(file, LAMBDA e : ~ContentLess(e))))


\* ------------------------------------------------------------------------
\* Properties of the subagent parser
\* ------------------------------------------------------------------------
\* The event carries the agent and the session of the payload.
TaggedBy(e, payload) ==
  /\ e.agent_id = payload.agent_id
  /\ e.session_id = payload.session_id

\* C31: in subagent mode every emitted event, the synthesized session_start
\* and session_end included, carries the agent_id and the session_id of the
\* payload, whatever session the lines of the transcript name; the mapped
\* events carry them too.
C31_SubagentTagged ==
  adapter = "subagent" =>
    /\ hook.agent_id # NULL /\ hook.session_id # NULL
    /\ \A i \in 1..Len(events) : TaggedBy(events[i], hook)
    /\ \A i \in 1..Len(mapped) : TaggedBy(mapped[i], hook)

\* A subagent transcript whose lines name another session than the payload
\* has been parsed into a bracket around a prompt and a turn with a tool
\* call.
C31_Witness ==
  /\ adapter = "subagent"
  /\ phase = "parsed"
  /\ \E i \in 1..Len(file) : file[i].valid /\ file[i].sessionId # hook.session_id
  /\ \A type \in {"session_start", "prompt", "turn_end", "tool_call", "session_end"} :
       \E i \in 1..Len(events) : events[i].event_type = type


\* ------------------------------------------------------------------------
\* Properties of the repository lookup
\* ------------------------------------------------------------------------
\* The events of the batch that carry a working directory, by position.
WithCwd(evs) == { i \in 1..Len(evs) : evs[i].cwd \notin {NULL, ""} }

\* Some event of the batch carries a repository.
CarriesRepo(evs) == \E i \in 1..Len(evs) : evs[i].git_repo \notin {NULL, ""}

\* C32: mapToVibeEvents calls the resolver at most once per batch: once,
\* with the cwd of the first event that has one, when no event carries a
\* git_repo and some event carries a cwd; not at all when an event carries
\* a git_repo or none carries a cwd.
C32_LookupOncePerBatch ==
  ret.returned =>
    LET evs == args.events
    IN /\ Len(ret.lookups) <= 1
       /\ (~CarriesRepo(evs) /\ WithCwd(evs) # {}) =>
            \E i \in WithCwd(evs) :
              /\ \A j \in WithCwd(evs) : i <= j
              /\ ret.lookups = << evs[i].cwd >>
       /\ (CarriesRepo(evs) \/ WithCwd(evs) = {}) => ret.lookups = << >>

\* A batch of three events, the first without a working directory, the
\* other two with different ones, was mapped with one lookup.
C32_Witness ==
  /\ ret.returned
  /\ Len(args.events) = 3
  /\ WithCwd(args.events) = {2, 3}
  /\ args.events[2].cwd # args.events[3].cwd
  /\ ret.lookups = << args.events[2].cwd >>
  /\ ret.events[3].session_git_repo = getGitRepo(args.events[2].cwd)


\* ------------------------------------------------------------------------
\* Properties of the session id
\* ------------------------------------------------------------------------
\* The session_id of the ParsedTranscript of the parse that has ended.
Returned ==
  returnedSessionId(adapter, st, hook, file # << >> /\ file[1].valid)

\* Some line of the transcript names another session than s.
NamesOther(s) ==
  \E i \in 1..Len(file) : file[i].valid /\ file[i].sessionId \notin {NULL, s}

\* C33: when the hook payload supplies a session_id it goes before the
\* session id found in the transcript: for the Claude, Codex and Gemini
\* adapters every emitted event carries the payload's session_id, and so
\* does the returned transcript.
C33_PayloadSessionFirst ==
  (adapter \in {"claude", "codex", "gemini"} /\ hook.present /\ hook.session_id # NULL) =>
    /\ \A i \in 1..Len(events) : events[i].session_id = hook.session_id
    /\ phase = "parsed" => Returned = hook.session_id

\* A Gemini document that names another session than the payload has been
\* parsed into events.
C33_Witness ==
  /\ adapter = "gemini"
  /\ hook.present /\ hook.session_id # NULL
  /\ phase = "parsed"
  /\ NamesOther(hook.session_id)
  /\ Len(events) >= 3


\* ------------------------------------------------------------------------
\* Properties of the file-effect extractor
\* ------------------------------------------------------------------------
\* The newline-separated segments of a string.
Segments(text) == Len(text)

\* The same, with no line in the empty string.
LinesIn(text) == IF Len(text) = 1 /\ text[1] = "" THEN 0 ELSE Len(text)

\* The call is for a file: the arguments are an object with a string
\* file_path.
HasPath == args.input.isObject /\ args.input.file_path # NULL

\* The file fields of the call, with the lines of a text counted by count.
FileEffect(count(_)) ==
  LET input == args.input
      info == ret.info
  IN /\ (args.toolName = "Write" /\ HasPath /\ input.content # NoText) =>
          /\ info.file_path = input.file_path
          /\ info.file_action = "update"
          /\ info.file_lines_added = count(input.content)
          /\ info.file_lines_removed = NoNum
     /\ (args.toolName \in {"Edit", "MultiEdit"} /\ HasPath
         /\ input.old_string # NoText /\ input.new_string # NoText) =>
          /\ info.file_path = input.file_path
          /\ info.file_action = "update"
          /\ info.file_lines_removed = count(input.old_string)
          /\ info.file_lines_added = count(input.new_string)
     /\ ~HasPath => info = NoFileInfo

\* C36 as stated: lines are the newline-separated segments: a Write with a
\* string file_path and content of k segments yields update, k lines added
\* and none removed; an Edit or MultiEdit with old_string of m and
\* new_string of k segments yields update, m removed and k added; a call
\* without a string file_path yields no file fields.
C36_LinesAreSegments ==
  ret.returned => FileEffect(Segments)

\* C36: the same, where the empty string counts as 0 lines (and every other
\* string as the number of its newline-separated segments).
C36_LinesAreSegmentsButEmpty ==
  ret.returned => FileEffect(LinesIn)

\* An Edit that replaces the empty string by three lines has been
\* extracted: nothing removed, three lines added.
C36_Witness ==
  /\ ret.returned
  /\ args.toolName = "Edit"
  /\ HasPath
  /\ args.input.old_string = <<"">>
  /\ Len(args.input.new_string) = 3
  /\ ret.info.file_lines_removed = 0
  /\ ret.info.file_lines_added = 3


\* ------------------------------------------------------------------------
\* Properties of the hook-payload parsers
\* ------------------------------------------------------------------------
\* C34: for the Claude, Codex and Gemini sources the hook-payload parser
\* returns null and does not throw when its input is not valid JSON.
C34_InvalidPayloadGivesNull ==
  (ret.returned /\ args.source \in {"claude", "codex", "gemini"}
   /\ JSONparse(args.stdin).threw) =>
    ~ret.threw /\ ret.null


\* ------------------------------------------------------------------------
\* Properties of the aborted turn of Codex
\* ------------------------------------------------------------------------
\* The step goes through a turn_aborted entry of a Codex rollout.
Aborts ==
  /\ adapter = "codex"
  /\ phase = "parse"
  /\ pos' = pos + 1
  /\ file'[pos].ptype = "turn_aborted"

\* Agent messages or function calls came since the last flush trigger.
PendingWork == SelectSeq(SinceFlush(Done), Activity) # << >>

\* The step emits one turn_end with the next index and the tool calls of
\* the pending function calls behind it, and nothing else.
EmitsPendingTurn ==
  LET made == CallsOf(SinceFlush(Done))
      n == Len(events)
  IN /\ st'.turnIndex = st.turnIndex + 1
     /\ Len(events') = n + 1 + Len(made)
     /\ SubSeq(events', 1, n) = events
     /\ events'[n + 1].event_type = "turn_end"
     /\ events'[n + 1].turn_index = st.turnIndex + 1
     /\ \A m \in 1..Len(made) :
          /\ events'[n + 1 + m].event_type = "tool_call"
          /\ events'[n + 1 + m].turn_index = st.turnIndex + 1
          /\ events'[n + 1 + m].tool_name_raw = made[m].name

\* The step emits nothing and takes no index.
EmitsNothing == events' = events /\ st'.turnIndex = st.turnIndex

\* The k-th turn_end of the output has turn_index k.
TurnsCountFromOne ==
  LET ends == SelectSeq(events, LAMBDA e : e.event_type = "turn_end")
  IN \A k \in 1..Len(ends) : ends[k].turn_index = k

\* C35 as stated: a turn_aborted entry of Codex is a flush trigger: what was
\* accumulated before it is emitted as one turn_end with its tool_calls and
\* the next turn_index; an abort with nothing pending emits no turn_end and
\* takes no index, so the turns are numbered from 1 whatever aborts came
\* before them.
C35_AbortFlushes ==
  /\ [](adapter = "codex" => TurnsCountFromOne)
  /\ [][Aborts => IF PendingWork THEN EmitsPendingTurn ELSE EmitsNothing]_vars

\* C35: the same for a session whose id is known at the abort; without a
\* session id the abort emits nothing and takes no index.
C35_AbortFlushesOfSession ==
  /\ [](adapter = "codex" => TurnsCountFromOne)
  /\ [][Aborts => IF PendingWork /\ st.sessionId # NULL
                  THEN EmitsPendingTurn ELSE EmitsNothing]_vars

\* An abort with nothing pending was followed by a function call and a
\* second abort, which emitted the turn with index 1 and its tool call.
C35_Witness ==
  /\ adapter = "codex"
  /\ phase = "parse"
  /\ pos = 4
  /\ file[1].ptype = "turn_aborted"
  /\ file[2].ptype = "function_call"
  /\ file[3].ptype = "turn_aborted"
  /\ Len(events) = 2
  /\ events[1].event_type = "turn_end" /\ events[1].turn_index = 1
  /\ events[2].event_type = "tool_call" /\ events[2].turn_index = 1


\* C37: for every adapter and every transcript, all events of the returned
\* ParsedTranscript carry one and the same session_id, that of the
\* ParsedTranscript, and none carries an empty one, also when the session id
\* becomes known only after the first entries.
C37_OneSessionId ==
  phase = "parsed" =>
    \A i \in 1..Len(events) :
      /\ events[i].session_id \notin {NULL, ""}
      /\ events[i].session_id = Returned


\* ------------------------------------------------------------------------
\* Properties of the tool calls of a transcript
\* ------------------------------------------------------------------------
\* The loop of the parser does not skip line i at its top.
Reads(i) ==
  /\ file[i].valid
  /\ file[i].timestamp # NoTs
  /\ adapter = "claude" => file[i].sessionId # NULL

\* Line i is a re-emission: an assistant entry of Claude with the uuid of
\* an earlier one, a line of Cursor with the type and the time of an
\* earlier one.
Repeats(i) ==
  \E j \in 1..(i - 1) :
    /\ Reads(j)
    /\ IF adapter = "claude"
       THEN /\ file[j].type = "assistant" /\ file[j].role = "assistant"
            /\ file[j].uuid = file[i].uuid
       ELSE /\ adapter = "cursor"
            /\ file[j].type = file[i].type
            /\ file[j].timestamp = file[i].timestamp

\* Line i is an entry whose tool invocations count: a function_call of
\* Codex, an assistant entry with emittable content that is no re-emission.
Counted(i) ==
  /\ Reads(i)
  /\ IF adapter = "codex"
     THEN file[i].type = "response_item" /\ file[i].ptype = "function_call"
     ELSE /\ file[i].type = "assistant" /\ file[i].role = "assistant"
          /\ HasContent(file[i])
          /\ ~Repeats(i)

\* Line k is a flush trigger that the parser goes through.
Trigger(k) ==
  /\ Reads(k)
  /\ IF adapter = "codex"
     THEN file[k].type = "event_msg" /\ file[k].ptype \in {"user_message", "turn_aborted"}
     ELSE /\ file[k].type = "user" /\ file[k].role = "user"
          /\ ~Repeats(k)

\* The line at which the turn of line i is flushed; past the last line for
\* the flush at the end.
Close(i) ==
  LET after == { k \in (i + 1)..Len(file) : Trigger(k) }
  IN IF after = {} THEN Len(file) + 1
     ELSE CHOOSE k \in after : \A l \in after : k <= l

\* The session id is known when the parser is at line k.
KnownAt(k) ==
  \/ hook.session_id # NULL
  \/ \E j \in 1..Len(file) :
       /\ j <= k
       /\ file[j].valid /\ file[j].timestamp # NoTs /\ file[j].sessionId # NULL
       /\ adapter = "codex" => file[j].type = "session_meta"

\* The tool-invocation blocks of the counted entries from line i on, in
\* the order of the transcript; with known, only those of turns that are
\* flushed when the session id is known.
RECURSIVE Invocations(_, _)
Invocations(i, known) ==
  IF i > Len(file) THEN << >>
  ELSE (IF Counted(i) /\ (known => KnownAt(Close(i)))
        THEN ToolUses(file[i]) ELSE << >>)
       \o Invocations(i + 1, known)

\* The tool_call events of the output are these blocks, one event for each
\* in their order, with the raw name and the serialized arguments.
ToolCallsAre(blocks) ==
  LET out == SelectSeq(events, LAMBDA e : e.event_type = "tool_call")
  IN /\ Len(out) = Len(blocks)
     /\ \A m \in 1..Len(blocks) :
          /\ out[m].tool_name_raw = Nullish(blocks[m].name, "")
          /\ blocks[m].input.isObject => out[m].tool_input = blocks[m].input.json

LineOriented == adapter \in {"claude", "codex", "cursor"}

\* C38 as stated: a line-oriented adapter neither loses nor duplicates a
\* tool invocation: every tool-invocation block of an assistant entry with
\* emittable content that is no re-emission of an earlier entry (Claude:
\* the first entry with its uuid; Codex: every function_call; Cursor: every
\* distinct assistant entry) is exactly one tool_call event of the output,
\* with the raw name and the serialized arguments of the block.
C38_ToolCallsKept ==
  (LineOriented /\ phase = "parsed") => ToolCallsAre(Invocations(1, FALSE))

\* C38: the same for the entries of turns that are flushed when the session
\* id is known; the tool invocations of a turn flushed before that are
\* dropped with the turn.
C38_ToolCallsKeptOfSession ==
  (LineOriented /\ phase = "parsed") => ToolCallsAre(Invocations(1, TRUE))

\* A Claude transcript with two tool calls in entries of their own and a
\* re-emission of the first has been parsed into two tool_call events.
C38_Witness ==
  /\ adapter = "claude"
  /\ phase = "parsed"
  /\ Len(file) = 3
  /\ \E i \in 1..3 : Repeats(i)
  /\ Len(Invocations(1, FALSE)) = 2
  /\ Len(SelectSeq(events, LAMBDA e : e.event_type = "tool_call")) = 2


\* ------------------------------------------------------------------------
\* Properties of the generated ids
\* ------------------------------------------------------------------------
\* The number a string of hexadecimal digits stands for.
RECURSIVE HexValue(_)
HexValue(str) ==
  IF str = << >> THEN 0
  ELSE HexValue(SubSeq(str, 1, Len(str) - 1)) * 16 + str[Len(str)]

\* The text of an id: its groups with a hyphen, which sorts below every
\* digit, between them.
Hyphen == << -1 >>
TextOf(id) == id[1] \o Hyphen \o id[2] \o Hyphen \o id[3] \o Hyphen \o id[4] \o Hyphen \o id[5]

\* a sorts before b, character by character.
RECURSIVE SortsBefore(_, _)
SortsBefore(a, b) ==
  IF b = << >> THEN FALSE
  ELSE IF a = << >> THEN TRUE
  ELSE IF a[1] # b[1] THEN a[1] < b[1]
  ELSE SortsBefore(Tail(a), Tail(b))

\* The ids are five groups of hexadecimal digits.
FiveGroups(id) ==
  /\ Len(id) = 5
  /\ \A g \in 1..5 : \A i \in 1..Len(id[g]) : id[g][i] \in 0..15

\* The first twelve digits are the time, the third group starts with the
\* version 7, the fourth with the variant bits 10.
TimeVersionVariant(r) ==
  /\ Len(r.id[1]) = 8 /\ Len(r.id[2]) = 4
  /\ HexValue(r.id[1] \o r.id[2]) = r.at
  /\ Len(r.id[3]) = 4 /\ r.id[3][1] = 7
  /\ r.id[4][1] \in 8..11
  /\ Len(r.id[5]) = 12

\* Ids of different milliseconds sort in the order of their generation.
TimeSorted ==
  \A i, j \in 1..Len(ret) :
    (i < j /\ ret[i].at < ret[j].at) => SortsBefore(TextOf(ret[i].id), TextOf(ret[j].id))

\* C39: every id of generateUUIDv7 has the layout of a UUID, five groups of
\* 8, 4, 4, 4 and 12 hexadecimal digits, the first twelve digits being the
\* millisecond timestamp, with the version digit 7 at the start of the third
\* group and the variant bits 10 at the start of the fourth, so that ids of
\* different milliseconds sort lexicographically in generation order.
C39_UuidLayout ==
  /\ \A k \in 1..Len(ret) :
       /\ FiveGroups(ret[k].id)
       /\ TimeVersionVariant(ret[k])
       /\ Len(ret[k].id[4]) = 4
  /\ TimeSorted

====
